---- MODULE Spec2Model ----
(***************************************************************************)
(* Verification model of the monday-for-agents Slack gateway               *)
(* (packages/slack-app): thread-session handlers, A2A client, scheduled-   *)
(* job runtime, meeting store / meeting sync and the Google OAuth broker.  *)
(*                                                                         *)
(* The components share no state, so each one has its own specification    *)
(* over the module's variables:                                            *)
(*   Spec        mention / direct-message / threaded-reply handlers        *)
(*   SpecA2A     the JSON-RPC client                                       *)
(*   SpecSched   the cron scheduler service                                *)
(*   SpecMeet    meeting store, meeting sync and the preview actions       *)
(*   SpecAuth    GoogleAuthService over the token store                    *)
(***************************************************************************)
EXTENDS Integers, Sequences, FiniteSets, Bags, TLC

\* ------------------------------------------------------------------------
\* Bounds of the model
\* ------------------------------------------------------------------------
\* platform events delivered in one behaviour
MaxEvents == 2
\* event callbacks suspended at an await at the same time
MaxInFlight == 2
\* distinct Slack timestamps (message ts / thread_ts values)
NumTs == 2
\* JSON-RPC requests issued through one A2A client
MaxRpcCalls == 2
\* jobs registered with the scheduler service
NumJobs == 2
\* cron ticks delivered to the scheduler's callbacks
MaxTicks == 4
\* calendar events with conference data that a sync run can list
NumMeetings == 1
\* runs of checkRecentMeetings, one after another
MaxRuns == 2
\* event ids passed to the meeting store's methods when called directly
NumStoreKeys == 2
\* calls of handleCallback, getClient and disconnect
MaxAuthCalls == 2
MaxOverlapCalls == 1
\* the latest reading of Date.now()
MaxNow == 3
\* how far after now() the expiry of a token the server issues lies
TokenLifetime == 1
\* words in a text handed to classify directly
MaxWords == 2
\* fires of the hourly calendar refresh interval
MaxRefreshes == 1
\* calendar events the orchestrator is shown
NumOrchEvents == 1
\* clicks on the Create Task button of the task preview
MaxClicks == 3
\* tool_use blocks in one reply of the LLM
MaxToolUses == 2

\* ------------------------------------------------------------------------
\* Intent router (services/intent-router.ts)
\* Texts are sequences of words; String.includes of a keyword phrase is
\* modelled as "the phrase occurs as a contiguous run of words".
\* ------------------------------------------------------------------------
INTENT_TYPES ==
  {"create-task", "board-status", "meeting-sync", "calendar", "drive", "agent-chat"}

AGENT_URLS ==
  [k \in {"product-owner", "developer", "reviewer", "scrum-master"} |->
     CASE k = "product-owner" -> 10001
       [] k = "developer" -> 10002
       [] k = "reviewer" -> 10003
       [] k = "scrum-master" -> 10004]

AgentKeys == DOMAIN AGENT_URLS

\* text.toLowerCase(), word by word
LowerWord(w) ==
  CASE w = "Create" -> "create"
    [] w = "Task" -> "task"
    [] w = "STATUS" -> "status"
    [] w = "I" -> "i"
    [] w = "NO_STALE_TASKS" -> "no_stale_tasks"
    [] OTHER -> w

toLowerCase(text) == [i \in 1..Len(text) |-> LowerWord(text[i])]

\* lower.includes(kw)
includes(text, kw) ==
  \E i \in 1..(Len(text) - Len(kw) + 1) : SubSeq(text, i, i + Len(kw) - 1) = kw

KEYWORD_RULES ==
  << [keywords |-> << <<"create", "a", "task">>, <<"create", "task">>,
                      <<"make", "a", "task">>, <<"add", "a", "task">>,
                      <<"new", "task">> >>,
      intent |-> "create-task", agentKey |-> "product-owner"],
     [keywords |-> << <<"board", "status">>, <<"sprint", "status">>,
                      <<"standup">>, <<"stand-up">> >>,
      intent |-> "board-status", agentKey |-> "scrum-master"],
     [keywords |-> << <<"sync", "meeting">>, <<"sync", "my", "meeting">>,
                      <<"meeting", "sync">>, <<"sync", "meetings">> >>,
      intent |-> "meeting-sync", agentKey |-> "product-owner"],
     [keywords |-> << <<"calendar">>, <<"schedule">>, <<"what's", "on", "my">>,
                      <<"my", "agenda">>, <<"my", "meetings", "today">>,
                      <<"book", "a", "meeting">> >>,
      intent |-> "calendar", agentKey |-> "product-owner"],
     [keywords |-> << <<"find", "the", "file">>, <<"find", "a", "file">>,
                      <<"search", "drive">>, <<"google", "drive">>,
                      <<"my", "drive">>, <<"find", "the", "doc">>,
                      <<"find", "document">> >>,
      intent |-> "drive", agentKey |-> "product-owner"] >>

NoResult == [intent |-> "none", agentKey |-> "none"]

\* a pre-filter that lets the last matching rule of the table win
keywordPreFilter_LastMatch(text) ==
  LET lower == toLowerCase(text)
      hits == {r \in 1..Len(KEYWORD_RULES) :
                 \E k \in 1..Len(KEYWORD_RULES[r].keywords) :
                   includes(lower, KEYWORD_RULES[r].keywords[k])}
  IN IF hits = {} THEN [intent |-> "none", agentKey |-> "none"]
     ELSE LET last == CHOOSE r \in hits : \A s \in hits : s <= r
          IN [intent |-> KEYWORD_RULES[last].intent,
              agentKey |-> KEYWORD_RULES[last].agentKey]

RuleMatches(rule, lower) ==
  \E k \in 1..Len(rule.keywords) : includes(lower, rule.keywords[k])

keywordPreFilter(text) ==
  LET lower == toLowerCase(text)
      hits == {r \in 1..Len(KEYWORD_RULES) : RuleMatches(KEYWORD_RULES[r], lower)}
  IN IF hits = {} THEN NoResult
     ELSE LET first == CHOOSE r \in hits : \A s \in hits : r <= s
          IN [intent |-> KEYWORD_RULES[first].intent,
              agentKey |-> KEYWORD_RULES[first].agentKey]

SCRUM_MASTER_KEYWORDS ==
  { <<"status">>, <<"standup">>, <<"blocked">>, <<"summary">>, <<"report">>,
    <<"sprint">>, <<"board">> }
CREATE_TASK_KEYWORDS == { <<"create">>, <<"task">>, <<"add", "item">> }
CALENDAR_KEYWORDS ==
  { <<"calendar">>, <<"schedule">>, <<"meeting">>, <<"agenda">>,
    <<"appointment">>, <<"book">> }
DRIVE_KEYWORDS ==
  { <<"drive">>, <<"file">>, <<"document">>, <<"doc">>, <<"sheet">>, <<"folder">> }
MEETING_SYNC_KEYWORDS == { <<"sync">>, <<"transcript">>, <<"meeting", "notes">> }

some(kws, lower) == \E kw \in kws : includes(lower, kw)

classifyFallback(text) ==
  LET lower == toLowerCase(text)
  IN IF some(CREATE_TASK_KEYWORDS, lower) /\ includes(lower, <<"task">>)
       THEN [intent |-> "create-task", agentKey |-> "product-owner"]
     ELSE IF some(MEETING_SYNC_KEYWORDS, lower)
       THEN [intent |-> "meeting-sync", agentKey |-> "product-owner"]
     ELSE IF some(CALENDAR_KEYWORDS, lower)
       THEN [intent |-> "calendar", agentKey |-> "product-owner"]
     ELSE IF some(DRIVE_KEYWORDS, lower)
       THEN [intent |-> "drive", agentKey |-> "product-owner"]
     ELSE IF some(SCRUM_MASTER_KEYWORDS, lower)
       THEN [intent |-> "board-status", agentKey |-> "scrum-master"]
     ELSE [intent |-> "agent-chat", agentKey |-> "product-owner"]

\* What the LLM call of classify can produce: a thrown error, a response
\* without a text block, text that JSON.parse rejects, or a JSON object.
LlmReply(kind, intent, agentKey) ==
  [kind |-> kind, intent |-> intent, agentKey |-> agentKey]

\* a classify that takes the intent of the LLM's JSON as it comes
classify_TrustsLlm(text, reply) ==
  LET keywordResult == keywordPreFilter(text)
  IN IF keywordResult # NoResult THEN keywordResult
     ELSE IF reply.kind \in {"error", "no_text", "not_json", "json_null"}
       THEN classifyFallback(text)
     ELSE [intent |-> reply.intent,
           agentKey |-> IF reply.agentKey # ""
                           THEN reply.agentKey ELSE "product-owner"]

\* IntentRouter.classify; reply is only consulted when no keyword rule fires.
\* A reply of kind "json_null" is text that parses to null, on which reading
\* parsed.intent throws inside the try; "json_fenced" is JSON in a code fence.
classify(text, reply) ==
  LET keywordResult == keywordPreFilter(text)
  IN IF keywordResult # NoResult THEN keywordResult
     ELSE IF reply.kind \in {"error", "no_text", "not_json", "json_null"}
       THEN classifyFallback(text)
     ELSE [intent |-> IF reply.intent \in INTENT_TYPES
                         THEN reply.intent ELSE "agent-chat",
           agentKey |-> IF reply.agentKey # ""
                           THEN reply.agentKey ELSE "product-owner"]

\* classify reaches the LLM exactly when the pre-filter finds nothing
classifyCallsLlm(text) == keywordPreFilter(text) = NoResult

\* ------------------------------------------------------------------------
\* State
\* ------------------------------------------------------------------------
VARIABLES
  threadMap,   \* handlers/mention.ts threadMap: thread_ts -> ThreadMapping
  hs,          \* bag of the event callbacks suspended at an await
  delivered,   \* number of platform events delivered so far
  uuidNext,    \* the next value uuidv4() returns (all values are fresh)
  botUserId,   \* handlers/mention.ts botUserId cache: resolved or not
  log,         \* outbound effects, tagged with the event that caused them
  a2aCalls,    \* message/send requests issued by the handlers
  escaped,     \* kinds of the events whose callback let an exception escape
  rpcSeq,      \* A2A client: number of requests built so far (source of ids)
  rpcCall,     \* A2A client: the last call, its request and what came back
  rpcSent,     \* A2A client: contextId argument and configuration of every message/send request
  jobs,        \* scheduler: the ManagedJob of each registered job id
  schedPhase,  \* scheduler: "setup", "started" (after startAll) or "stopped"
  inFlight,    \* scheduler: executes of each job that have not settled yet
  ticks,       \* scheduler: cron ticks fired so far
  skips,       \* scheduler: ticks of each job that returned without execute
  execs,       \* scheduler: per job, how its last execute and its callback ended and the failures since the last success
  processed_meetings, \* meeting store: the rows of table processed_meetings
  previews,    \* Slack: per event, previews posted and whether the buttons are still shown
  modal,       \* Slack: per event, where the edit modal and its submit handler are
  sync,        \* the run of checkRecentMeetings in progress, if any
  syncPrev,    \* result of the run before the last completed one
  syncLast,    \* result of the last completed run
  runsDone,    \* completed runs of checkRecentMeetings
  google_tokens, \* token store: the row of each Slack user in table google_tokens
  authCalls,   \* GoogleAuthService: the calls awaiting Google's reply
  authStarted, \* GoogleAuthService: calls made so far
  now,         \* Date.now()
  authLast,    \* GoogleAuthService: the call that returned or threw last
  cls,         \* intent router: the classify call made, its inputs and its result
  scheduled,   \* MeetingSyncScheduler.scheduled: event id -> entry and the state of its two timers
  refreshTimer, \* MeetingSyncScheduler.refreshTimer: the hourly interval is set
  stopped,     \* MeetingSyncScheduler.stopped
  orchPhase,   \* MeetingSyncScheduler.start(): not called, awaiting its refresh, or returned
  refreshing,  \* refreshSchedule calls of the interval callback awaiting the calendar
  refreshFires, \* fires of the hourly interval so far
  syncing,     \* bag of attemptSync calls awaiting checkRecentMeetings
  created,     \* per event id, first-attempt and retry timers created so far
  attempts,    \* per event id, how its first attempt ended and whether its retry timer has fired
  taskPreview, \* Slack: what the task-preview message shows
  clickHs,     \* bag of mention_create_task callbacks suspended at an await
  clicksMade,  \* clicks on Create Task so far
  createCalls, \* create-task requests sent to the product-owner agent
  proc,        \* index.ts: the process, its configuration and its two durable stores
  agentRun,    \* a calendar or drive micro-agent request: the tool-use loop
  staleRun,    \* an execute of the stale-task job
  timerSync    \* a checkRecentMeetings call made by attemptSync

threadVars == <<threadMap, hs, delivered, uuidNext, botUserId, log, a2aCalls, escaped>>
a2aVars == <<rpcSeq, rpcCall, rpcSent>>

schedVars == <<jobs, schedPhase, inFlight, ticks, skips, execs>>

meetVars == <<processed_meetings, previews, modal, sync, syncPrev, syncLast, runsDone>>

authVars == <<google_tokens, authCalls, authStarted, now, authLast>>

routerVars == <<cls>>

orchVars == <<scheduled, refreshTimer, stopped, orchPhase, refreshing, refreshFires,
              syncing, created, attempts>>

previewVars == <<taskPreview, clickHs, clicksMade, createCalls>>

lifeVars == <<proc>>
agentVars == <<agentRun>>
staleVars == <<staleRun>>
raceVars == <<timerSync>>

vars == <<threadVars, a2aVars, schedVars, meetVars, authVars, routerVars, orchVars, previewVars, lifeVars, agentVars, staleVars, raceVars>>
notThread == <<a2aVars, schedVars, meetVars, authVars, routerVars, orchVars, previewVars, lifeVars, agentVars, staleVars, raceVars>>
notA2A == <<threadVars, schedVars, meetVars, authVars, routerVars, orchVars, previewVars, lifeVars, agentVars, staleVars, raceVars>>
notSched == <<threadVars, a2aVars, meetVars, authVars, routerVars, orchVars, previewVars, lifeVars, agentVars, staleVars, raceVars>>
notMeet == <<threadVars, a2aVars, schedVars, authVars, routerVars, orchVars, previewVars, lifeVars, agentVars, staleVars, raceVars>>
notAuth == <<threadVars, a2aVars, schedVars, meetVars, routerVars, orchVars, previewVars, lifeVars, agentVars, staleVars, raceVars>>
notRouter == <<threadVars, a2aVars, schedVars, meetVars, authVars, orchVars, previewVars, lifeVars, agentVars, staleVars, raceVars>>
notOrch == <<threadVars, a2aVars, schedVars, meetVars, authVars, routerVars, previewVars, lifeVars, agentVars, staleVars, raceVars>>
notPreview == <<threadVars, a2aVars, schedVars, meetVars, authVars, routerVars, orchVars, lifeVars, agentVars, staleVars, raceVars>>
notLife == <<threadVars, a2aVars, schedVars, meetVars, authVars, routerVars, orchVars, previewVars, agentVars, staleVars, raceVars>>
notAgent == <<threadVars, a2aVars, schedVars, meetVars, authVars, routerVars, orchVars, previewVars, lifeVars, staleVars, raceVars>>
notStale == <<threadVars, a2aVars, schedVars, meetVars, authVars, routerVars, orchVars, previewVars, lifeVars, agentVars, raceVars>>
notRace == <<threadVars, a2aVars, schedVars, meetVars, authVars, routerVars, orchVars, previewVars, lifeVars, agentVars, staleVars>>

\* ------------------------------------------------------------------------
\* Mention, direct-message and threaded-reply handlers
\* (handlers/mention.ts, handlers/thread.ts, handlers/intent-handlers.ts)
\* ------------------------------------------------------------------------
TsSet == 1..NumTs
NoTs == 0
NoCtx == 0
BotUser == "UBOT"
Users == {"U1", BotUser}
BotMention == "<@UBOT>"

MentionTexts ==
  { <<BotMention>>, <<BotMention, "hello">>, <<BotMention, "create", "a", "task">> }
MessageTexts == { <<>>, <<"hello">>, <<"status">> }

HandlerLlmReplies ==
  { LlmReply("error", "", ""),
    LlmReply("json", "agent-chat", "developer"),
    LlmReply("json", "board-status", ""),
    LlmReply("json", "agent-chat", "qa-bot") }

NoMapping == [contextId |-> NoCtx, agentKey |-> "none", intent |-> "none"]

\* a callback in flight: where it is suspended and the locals that the rest
\* of it still reads (a local is reset once nothing reads it any more)
NoHandler ==
  [pc |-> "idle", kind |-> "none", key |-> NoTs, marker |-> FALSE,
   text |-> <<>>, intent |-> "none", agentKey |-> "none", ctx |-> NoCtx]

Running == BagToSet(hs)
CanDeliver == delivered < MaxEvents /\ BagCardinality(hs) < MaxInFlight
Start(rec) == hs' = hs (+) SetToBag({rec})
Step(h, rec) == hs' = (hs (-) SetToBag({h})) (+) SetToBag({rec})

\* the Slack event a callback belongs to
EventKind(kind) == IF kind = "app_mention" THEN "app_mention" ELSE "message"

\* an event that carries one of the three loop markers of the spec
HasLoopMarker(subtype, bot_id, user) == subtype \/ bot_id \/ user = BotUser

\* log keeps what the events that carry a loop marker caused
Effects(h, ops) ==
  IF h.marker THEN {[op |-> o, kind |-> EventKind(h.kind)] : o \in ops} ELSE {}

\* the effects ops of callback h: log takes those of an event with a loop
\* marker, escaped the event kind when an exception leaves the callback
Record(h, ops) ==
  /\ log' = log \cup Effects(h, ops)
  /\ escaped' = IF "escape" \in ops THEN escaped \cup {EventKind(h.kind)} ELSE escaped

\* loop suppression that forgets the bot_id test
loopSuppressed_NoBotId(subtype, bot_id, user) == subtype \/ user = BotUser

\* thread.ts: if (event.subtype) return; if (bot_id) return;
\*            if (event.user === context.botUserId) return;
loopSuppressed(subtype, bot_id, user) == subtype \/ bot_id \/ user = BotUser

\* mention.ts resolveMentions: the bot's own mention is removed, then trim()
resolveMentions(text) == SelectSeq(text, LAMBDA w : w # BotMention)

Finish(h) == hs' = hs (-) SetToBag({h})
\* an exception that leaves the callback
Escape(h) ==
  /\ Finish(h)
  /\ Record(h, {"escape"})

\* app_mention callback up to its first await (resolveMentions)
DeliverMention ==
  \E text \in MentionTexts, ts \in TsSet, thread_ts \in TsSet \cup {NoTs},
     subtype \in BOOLEAN, bot_id \in BOOLEAN, user \in Users :
    /\ CanDeliver
    /\ delivered' = delivered + 1
    /\ UNCHANGED notThread
    /\ Start([NoHandler EXCEPT !.pc = "resolve", !.kind = "app_mention",
                !.key = IF thread_ts # NoTs THEN thread_ts ELSE ts,
                !.marker = HasLoopMarker(subtype, bot_id, user),
                !.text = text])
    /\ UNCHANGED <<threadMap, uuidNext, botUserId, log, a2aCalls, escaped>>

\* resolveMentions returns (or auth.test rejects); then the help reply, with
\* which the callback ends, or the "Thinking..." post and classify
MentionResolved(h, ok, sayOk) ==
  /\ h.pc = "resolve"
  /\ UNCHANGED notThread
  /\ botUserId \/ ok
  /\ UNCHANGED <<threadMap, delivered, uuidNext, a2aCalls>>
  /\ IF ~ok
       THEN /\ Escape(h)
            /\ UNCHANGED botUserId
       ELSE /\ botUserId' = TRUE
            /\ LET messageText == resolveMentions(h.text)
               IN IF messageText = <<>>
                    THEN /\ Finish(h)
                         /\ Record(h, {"say"} \cup
                                      (IF sayOk THEN {} ELSE {"escape"}))
                    ELSE /\ sayOk
                         /\ Step(h, [h EXCEPT !.text = messageText, !.pc = "thinking"])
                         /\ Record(h, {"say"})

\* message callback: loop suppression
MessageDropped ==
  \E subtype \in BOOLEAN, bot_id \in BOOLEAN, user \in Users :
    /\ delivered < MaxEvents
    /\ loopSuppressed(subtype, bot_id, user)
    /\ delivered' = delivered + 1
    /\ UNCHANGED notThread
    /\ log' = log \cup {[op |-> "drop", kind |-> "message"]}
    /\ UNCHANGED escaped
    /\ UNCHANGED <<threadMap, hs, uuidNext, botUserId, a2aCalls>>

\* a reply filter without the channel-scoped intent policy
replyForwarded_AnyIntent(isDM, thread_ts, text) ==
  /\ thread_ts # NoTs
  /\ threadMap[thread_ts] # NoMapping
  /\ text # <<>>
  /\ threadMap[thread_ts].agentKey \in DOMAIN AGENT_URLS

\* thread.ts: what a threaded reply needs to be forwarded
replyForwarded(isDM, thread_ts, text) ==
  /\ thread_ts # NoTs
  /\ threadMap[thread_ts] # NoMapping
  /\ ~(~isDM /\ threadMap[thread_ts].intent # "none"
              /\ threadMap[thread_ts].intent # "agent-chat")
  /\ text # <<>>
  /\ threadMap[thread_ts].agentKey \in DOMAIN AGENT_URLS

\* message callback: the early returns after loop suppression
MessageIgnored ==
  \E text \in MessageTexts, thread_ts \in TsSet \cup {NoTs}, isDM \in BOOLEAN,
     subtype \in BOOLEAN, bot_id \in BOOLEAN, user \in Users :
    /\ delivered < MaxEvents
    /\ ~loopSuppressed(subtype, bot_id, user)
    /\ IF isDM /\ thread_ts = NoTs
         THEN text = <<>>
         ELSE ~replyForwarded(isDM, thread_ts, text)
    /\ delivered' = delivered + 1
    /\ UNCHANGED notThread
    /\ UNCHANGED <<threadMap, hs, uuidNext, botUserId, log, a2aCalls, escaped>>

\* message callback: a new direct message, up to the "Thinking..." post
DeliverDM ==
  \E text \in MessageTexts \ {<<>>}, ts \in TsSet,
     subtype \in BOOLEAN, bot_id \in BOOLEAN, user \in Users :
    /\ CanDeliver
    /\ ~loopSuppressed(subtype, bot_id, user)
    /\ delivered' = delivered + 1
    /\ UNCHANGED notThread
    /\ LET rec == [NoHandler EXCEPT !.pc = "thinking", !.kind = "dm", !.key = ts,
                     !.marker = HasLoopMarker(subtype, bot_id, user),
                     !.text = text]
       IN /\ Start(rec)
          /\ Record(rec, {"say"})
    /\ UNCHANGED <<threadMap, uuidNext, botUserId, a2aCalls>>

\* message callback: a reply in a tracked thread, up to a2a.sendMessage
ReplyEvent(text, thread_ts, isDM, subtype, bot_id, user) ==
    /\ CanDeliver
    /\ ~loopSuppressed(subtype, bot_id, user)
    /\ replyForwarded(isDM, thread_ts, text)
    /\ delivered' = delivered + 1
    /\ UNCHANGED notThread
    /\ LET mapping == threadMap[thread_ts]
           rec == [NoHandler EXCEPT !.pc = "reply_a2a", !.kind = "reply",
                     !.marker = HasLoopMarker(subtype, bot_id, user)]
       IN /\ Start(rec)
          /\ Record(rec, {"a2a"})
          /\ a2aCalls' = a2aCalls \cup
               {[agentKey |-> mapping.agentKey, ctx |-> mapping.contextId]}
    /\ UNCHANGED <<threadMap, uuidNext, botUserId>>

DeliverReply ==
  \E text \in MessageTexts, thread_ts \in TsSet \cup {NoTs}, isDM \in BOOLEAN,
     subtype \in BOOLEAN, bot_id \in BOOLEAN, user \in Users :
    ReplyEvent(text, thread_ts, isDM, subtype, bot_id, user)

\* mention.ts: the mapping of a follow-up mention keeps its contextId
mentionMapping(old, intent, agentKey, uuid) ==
  IF old = NoMapping
    THEN [contextId |-> uuid, agentKey |-> agentKey, intent |-> intent]
    ELSE [old EXCEPT !.intent = intent, !.agentKey = agentKey]

\* thread.ts: every new direct message stores a new mapping
dmMapping(old, intent, agentKey, uuid) ==
  [contextId |-> uuid, agentKey |-> agentKey, intent |-> intent]

\* The "Thinking..." post and then intentRouter.classify return (nothing
\* shared is touched between the two awaits); the mapping is stored and the
\* switch of mention.ts / thread.ts enters the intent handler, which runs
\* up to its first await (a post).
Classified(h, sayOk, reply) ==
  /\ h.pc = "thinking"
  /\ UNCHANGED notThread
  /\ UNCHANGED <<delivered, botUserId, a2aCalls>>
  /\ IF ~sayOk
       THEN Escape(h) /\ UNCHANGED <<threadMap, uuidNext>>
       ELSE
         LET r == classify(h.text, reply)
             old == threadMap[h.key]
             mapping == IF h.kind = "app_mention"
                          THEN mentionMapping(old, r.intent, r.agentKey, uuidNext)
                          ELSE dmMapping(old, r.intent, r.agentKey, uuidNext)
             chat == r.intent = "agent-chat"
             known == r.agentKey \in DOMAIN AGENT_URLS
         IN /\ threadMap' = [threadMap EXCEPT ![h.key] = mapping]
            /\ uuidNext' = IF mapping.contextId = uuidNext
                             THEN uuidNext + 1 ELSE uuidNext
            /\ Step(h, [h EXCEPT !.text = <<>>, !.key = NoTs, !.intent = r.intent,
                                 !.agentKey = IF chat /\ known THEN r.agentKey ELSE "none",
                                 !.ctx = IF chat /\ known THEN mapping.contextId ELSE NoCtx,
                                 !.pc = IF chat /\ known THEN "chat_loading"
                                        ELSE "intent_handler"])
            /\ Record(h, {"classify", "set", "say"} \cup
                         (IF classifyCallsLlm(h.text) THEN {"llm"} ELSE {}))

\* handleAgentChat: the "Routing to..." post returns, history is read
\* (its failure is caught) and a2a.sendMessage is called
ChatLoaded(h, ok) ==
  /\ h.pc = "chat_loading"
  /\ UNCHANGED notThread
  /\ UNCHANGED <<threadMap, delivered, uuidNext, botUserId>>
  /\ IF ~ok
       THEN Escape(h) /\ UNCHANGED a2aCalls
       ELSE /\ Step(h, [h EXCEPT !.pc = "chat_a2a", !.intent = "none",
                                 !.agentKey = "none", !.ctx = NoCtx])
            /\ Record(h, {"a2a"})
            /\ a2aCalls' = a2aCalls \cup {[agentKey |-> h.agentKey, ctx |-> h.ctx]}

\* a2a.sendMessage returns (it never rejects); the outcome is posted and
\* the callback ends with that post
A2AReturned(h, sayOk) ==
  /\ h.pc \in {"chat_a2a", "reply_a2a"}
  /\ UNCHANGED notThread
  /\ Finish(h)
  /\ Record(h, {"say"} \cup (IF sayOk THEN {} ELSE {"escape"}))
  /\ UNCHANGED <<threadMap, delivered, uuidNext, botUserId, a2aCalls>>

\* the rest of a single-shot intent handler, or of handleAgentChat for an
\* unknown agent key; board-status asks the scrum-master without a contextId
IntentHandlerRan(h, ok) ==
  /\ h.pc = "intent_handler"
  /\ UNCHANGED notThread
  /\ Finish(h)
  /\ UNCHANGED <<threadMap, delivered, uuidNext, botUserId>>
  /\ IF ok /\ h.intent = "board-status"
       THEN /\ Record(h, {"a2a", "say"})
            /\ a2aCalls' = a2aCalls \cup {[agentKey |-> "scrum-master", ctx |-> NoCtx]}
       ELSE /\ Record(h, IF ok THEN {"say"} ELSE {"escape"})
            /\ UNCHANGED a2aCalls

ThreadInit ==
  /\ threadMap = [t \in TsSet |-> NoMapping]
  /\ hs = EmptyBag
  /\ delivered = 0
  /\ uuidNext = 1
  /\ botUserId = FALSE
  /\ log = {}
  /\ a2aCalls = {}
  /\ escaped = {}

\* ------------------------------------------------------------------------
\* A2A client (services/a2a-client.ts)
\* ------------------------------------------------------------------------

Undefined == "<undefined>"
ContextIds == {Undefined, "", "ctx-1", "ctx-2"}
RpcTexts == {"hello", "Give me the current board status summary."}
TaskIds == {"task-1", "task-2"}
NullBody == [null |-> TRUE]
TransportErrorCode == -32000
RequestTimeoutMs == 120000

\* what the agent's HTTP endpoint can do with one POST
ServerErrors ==
  { [code |-> -32601, message |-> "Method not found"],
    [code |-> -32603, message |-> "Internal error"] }
NoError == [code |-> 0, message |-> ""]
HttpOutcome(kind, status, body, error) ==
  [kind |-> kind, status |-> status, body |-> body, error |-> error]
HttpOutcomes ==
  { HttpOutcome("response", 200, "result", NoError),
    HttpOutcome("response", 200, "empty", NoError),
    HttpOutcome("response", 200, "null", NoError),
    HttpOutcome("response", 404, "result", NoError),
    HttpOutcome("refused", 0, "none", NoError),
    HttpOutcome("silent", 0, "none", NoError) } \cup
  { HttpOutcome("response", st, "error", e) : st \in {200, 500}, e \in ServerErrors }

\* the outcomes the spec calls transport failures
TransportFailure(o) ==
  \/ o.kind \in {"refused", "silent"}
  \/ o.kind = "response" /\ ~(o.status \in 200..299)
JsonRpcFailure(o) ==
  o.kind = "response" /\ o.status \in 200..299 /\ o.body = "error"

buildJsonRpcRequest(id, method, params) ==
  [jsonrpc |-> "2.0", id |-> id, method |-> method, params |-> params]

\* the body the agent sends with a 2xx status, as axios parses it
ResponseData(id, o) ==
  IF o.body = "error" THEN [jsonrpc |-> "2.0", id |-> id, error |-> o.error]
  ELSE IF o.body = "result"
    THEN [jsonrpc |-> "2.0", id |-> id, result |-> [id |-> "task-1", state |-> "completed"]]
  ELSE IF o.body = "empty" THEN [jsonrpc |-> "2.0", id |-> id]
  ELSE NullBody

\* axios.post(agentUrl, body, {headers, timeout: 120_000}): resolves on a
\* 2xx status, rejects on any other status, on a connection error and when
\* nothing arrives within the timeout
axiosPost(body, o) ==
  IF o.kind = "response" /\ o.status \in 200..299
    THEN [threw |-> FALSE, data |-> ResponseData(body.id, o), message |-> ""]
  ELSE IF o.kind = "response"
    THEN [threw |-> TRUE, data |-> NullBody, message |-> "Request failed with status code"]
  ELSE IF o.kind = "refused"
    THEN [threw |-> TRUE, data |-> NullBody, message |-> "connect ECONNREFUSED"]
  ELSE [threw |-> TRUE, data |-> NullBody, message |-> "timeout of 120000ms exceeded"]

\* a catch block that hands the failure on to the caller
rpcCatch_Rethrow(body, message) ==
  [threw |-> TRUE,
   value |-> [jsonrpc |-> "2.0", id |-> body.id,
              error |-> [code |-> TransportErrorCode, message |-> message]]]

\* the catch block of rpc
rpcCatch(body, message) ==
  [threw |-> FALSE,
   value |-> [jsonrpc |-> "2.0", id |-> body.id,
              error |-> [code |-> TransportErrorCode, message |-> message]]]

\* rpc(agentUrl, method, params): try { post; read data.error; return data }
\* catch { synthetic response }.  Reading data.error of a null body throws
\* inside the try block.
rpc(id, method, params, o) ==
  LET body == buildJsonRpcRequest(id, method, params)
      res == axiosPost(body, o)
  IN IF res.threw THEN rpcCatch(body, res.message)
     ELSE IF res.data = NullBody THEN rpcCatch(body, "Cannot read properties of null")
     ELSE [threw |-> FALSE, value |-> res.data]

\* a sendMessage that always sets params.configuration
sendMessageParams_AlwaysConfigured(text, contextId, messageId) ==
  [message |-> [role |-> "user", parts |-> <<[type |-> "text", text |-> text]>>,
                messageId |-> messageId],
   configuration |-> [context_id |-> contextId]]

\* sendMessage builds params; configuration only for a truthy contextId
sendMessageParams(text, contextId, messageId) ==
  LET message == [role |-> "user", parts |-> <<[type |-> "text", text |-> text]>>,
                  messageId |-> messageId]
  IN IF contextId \notin {Undefined, ""}
       THEN [message |-> message, configuration |-> [context_id |-> contextId]]
       ELSE [message |-> message]

NoCall == [op |-> "none"]

\* what a message/send request body shows of the contextId argument
sentConfiguration(contextId, params) ==
  [contextId |-> contextId,
   configured |-> "configuration" \in DOMAIN params,
   context_id |-> IF "configuration" \in DOMAIN params
                    THEN params.configuration.context_id ELSE Undefined]

SendMessage(agentKey, text, contextId, o) ==
  /\ rpcSeq < MaxRpcCalls
  /\ rpcSeq' = rpcSeq + 1
  /\ LET params == sendMessageParams(text, contextId, rpcSeq + 1)
         ret == rpc(rpcSeq + 1, "message/send", params, o)
     IN rpcCall' = [op |-> "sendMessage", url |-> AGENT_URLS[agentKey],
                    contextId |-> contextId, outcome |-> o,
                    request |-> buildJsonRpcRequest(rpcSeq + 1, "message/send", params),
                    threw |-> ret.threw, response |-> ret.value]
  /\ rpcSent' = rpcSent \cup {sentConfiguration(contextId, sendMessageParams(text, contextId, rpcSeq + 1))}
  /\ UNCHANGED notA2A

GetTask(agentKey, taskId, o) ==
  /\ rpcSeq < MaxRpcCalls
  /\ rpcSeq' = rpcSeq + 1
  /\ LET params == [id |-> taskId]
         ret == rpc(rpcSeq + 1, "task/get", params, o)
     IN rpcCall' = [op |-> "getTask", url |-> AGENT_URLS[agentKey],
                    contextId |-> Undefined, outcome |-> o,
                    request |-> buildJsonRpcRequest(rpcSeq + 1, "task/get", params),
                    threw |-> ret.threw, response |-> ret.value]
  /\ UNCHANGED rpcSent
  /\ UNCHANGED notA2A

A2AInit ==
  /\ rpcSeq = 0
  /\ rpcCall = NoCall
  /\ rpcSent = {}

NextA2A ==
  \/ \E k \in AgentKeys, text \in RpcTexts, c \in ContextIds, o \in HttpOutcomes :
       SendMessage(k, text, c, o)
  \/ \E k \in AgentKeys, id \in TaskIds, o \in HttpOutcomes : GetTask(k, id, o)

\* ------------------------------------------------------------------------
\* Scheduled-job runtime (services/scheduler.ts), driven as index.ts drives
\* it: every job is registered once, then startAll, and stopAll on shutdown.
\* ------------------------------------------------------------------------
JobIds == 1..NumJobs

NoJobResult == [success |-> FALSE, posted |-> FALSE, error |-> "<null>"]
NoJob ==
  [registered |-> FALSE, enabled |-> FALSE, task |-> FALSE, running |-> FALSE,
   lastRun |-> FALSE, lastResult |-> NoJobResult, consecutiveFailures |-> 0]

\* what job.definition.execute(ctx) can do: resolve with a result or reject
ExecuteOutcomes ==
  { [kind |-> "return", result |-> [success |-> TRUE, posted |-> TRUE, error |-> "<none>"]],
    [kind |-> "return", result |-> [success |-> TRUE, posted |-> FALSE, error |-> "<none>"]],
    [kind |-> "return", result |-> [success |-> FALSE, posted |-> FALSE, error |-> "agent error"]],
    [kind |-> "throw", result |-> [success |-> FALSE, posted |-> FALSE, error |-> "boom"]] }

\* register(definition)
Register(j, enabled) ==
  /\ schedPhase = "setup"
  /\ ~jobs[j].registered
  /\ jobs' = [jobs EXCEPT ![j] = [NoJob EXCEPT !.registered = TRUE, !.enabled = enabled]]
  /\ UNCHANGED <<schedPhase, inFlight, ticks, skips, execs>>
  /\ UNCHANGED notSched

\* a startAll that schedules every registered job
startsTask_IgnoresEnabled(job) == job.registered

\* the loop of startAll: entries of the map, less those it skips with
\* if (!job.definition.enabled) continue
startsTask(job) == job.registered /\ job.enabled

\* startAll(timezone): a cron task for every registered job that is enabled
StartAll ==
  /\ schedPhase = "setup"
  /\ schedPhase' = "started"
  /\ jobs' = [j \in JobIds |->
                IF startsTask(jobs[j])
                  THEN [jobs[j] EXCEPT !.task = TRUE] ELSE jobs[j]]
  /\ UNCHANGED <<inFlight, ticks, skips, execs>>
  /\ UNCHANGED notSched

\* stopAll()
StopAll ==
  /\ schedPhase = "started"
  /\ schedPhase' = "stopped"
  /\ jobs' = [j \in JobIds |-> [jobs[j] EXCEPT !.task = FALSE]]
  /\ UNCHANGED <<inFlight, ticks, skips, execs>>
  /\ UNCHANGED notSched

\* a callback without the overlap guard
overlapGuard_Missing(job) == FALSE

\* the overlap guard of the cron callback: if (job.running) return
overlapGuard(job) == job.running

\* cron fires the callback of job j: the guard, then running = true and the
\* call of execute, up to the await
Tick(j) ==
  /\ jobs[j].task
  /\ \A k \in JobIds : execs[k].callback # "rejected"
  /\ ticks < MaxTicks
  /\ ticks' = ticks + 1
  /\ UNCHANGED <<schedPhase, execs>>
  /\ UNCHANGED notSched
  /\ IF overlapGuard(jobs[j])
       THEN /\ skips' = [skips EXCEPT ![j] = @ + 1]
            /\ UNCHANGED <<jobs, inFlight>>
       ELSE /\ jobs' = [jobs EXCEPT ![j].running = TRUE]
            /\ inFlight' = [inFlight EXCEPT ![j] = @ + 1]
            /\ UNCHANGED skips

\* a callback that counts only the failures execute reports by its result
settle_ThrowNotCounted(job, o) ==
  IF o.kind = "return"
    THEN [job EXCEPT !.lastResult = o.result, !.lastRun = TRUE,
                     !.consecutiveFailures = IF o.result.success THEN 0 ELSE @ + 1,
                     !.running = FALSE]
    ELSE [job EXCEPT !.lastResult = [success |-> FALSE, posted |-> FALSE,
                                     error |-> o.result.error],
                     !.lastRun = TRUE,
                     !.running = FALSE]

\* a callback without catch and finally: a rejection leaves the job as it was
settle_NoCatch(job, o) ==
  IF o.kind = "return"
    THEN [job EXCEPT !.lastResult = o.result, !.lastRun = TRUE,
                     !.consecutiveFailures = IF o.result.success THEN 0 ELSE @ + 1,
                     !.running = FALSE]
    ELSE job

\* a callback that clears running at the end of try instead of in finally
settle_RunningInTry(job, o) ==
  IF o.kind = "return"
    THEN [job EXCEPT !.lastResult = o.result, !.lastRun = TRUE,
                     !.consecutiveFailures = IF o.result.success THEN 0 ELSE @ + 1,
                     !.running = FALSE]
    ELSE [job EXCEPT !.consecutiveFailures = @ + 1,
                     !.lastResult = [success |-> FALSE, posted |-> FALSE,
                                     error |-> o.result.error],
                     !.lastRun = TRUE]

\* the try / catch / finally around await execute(ctx)
settle(job, o) ==
  IF o.kind = "return"
    THEN [job EXCEPT !.lastResult = o.result, !.lastRun = TRUE,
                     !.consecutiveFailures = IF o.result.success THEN 0 ELSE @ + 1,
                     !.running = FALSE]
    ELSE [job EXCEPT !.consecutiveFailures = @ + 1,
                     !.lastResult = [success |-> FALSE, posted |-> FALSE,
                                     error |-> o.result.error],
                     !.lastRun = TRUE,
                     !.running = FALSE]

NoExec == [last |-> "none", callback |-> "none", failures |-> 0]

\* how the promise of the cron callback settles: the catch clause takes
\* every rejection of execute, and neither it nor finally throws
callbackEnd(o) == "returned"

\* an execute of job j settles
Settle(j, o) ==
  /\ inFlight[j] > 0
  /\ inFlight' = [inFlight EXCEPT ![j] = @ - 1]
  /\ jobs' = [jobs EXCEPT ![j] = settle(jobs[j], o)]
  /\ execs' = [execs EXCEPT ![j] =
                 [last |-> o.kind, callback |-> callbackEnd(o),
                  failures |-> IF o.kind = "return" /\ o.result.success
                                 THEN 0 ELSE @.failures + 1]]
  /\ UNCHANGED <<schedPhase, ticks, skips>>
  /\ UNCHANGED notSched

SchedInit ==
  /\ jobs = [j \in JobIds |-> NoJob]
  /\ schedPhase = "setup"
  /\ inFlight = [j \in JobIds |-> 0]
  /\ ticks = 0
  /\ skips = [j \in JobIds |-> 0]
  /\ execs = [j \in JobIds |-> NoExec]

NextSched ==
  \/ \E j \in JobIds, enabled \in BOOLEAN : Register(j, enabled)
  \/ StartAll
  \/ StopAll
  \/ \E j \in JobIds : Tick(j)
  \/ \E j \in JobIds, o \in ExecuteOutcomes : Settle(j, o)

\* ------------------------------------------------------------------------
\* Meeting store (services/meeting-store.ts), the meeting buttons and modal
\* (handlers/actions.ts) and MeetingSyncService.checkRecentMeetings.
\* processed_at is a timestamp no operation reads back; it is left out.
\* ------------------------------------------------------------------------
MeetingIds == 1..NumMeetings

MeetingStatuses == {"pending", "approved", "dismissed"}

\* the summary of a calendar event, used as the title of its row
EventTitle == "Sprint Planning"

HasRow(rows, e) == \E r \in rows : r.event_id = e
RowOf(rows, e) == CHOOSE r \in rows : r.event_id = e

\* an isProcessed that only counts meetings the user has decided on
isProcessed_DecidedOnly(e) ==
  \E r \in processed_meetings : r.event_id = e /\ r.status # "pending"

\* an isProcessed that offers dismissed meetings again
isProcessed_NotDismissed(e) ==
  \E r \in processed_meetings : r.event_id = e /\ r.status # "dismissed"

\* isProcessed(eventId): SELECT 1 ... WHERE event_id = ? returned a row
isProcessed(e) == \E r \in processed_meetings : r.event_id = e

\* markPending(eventId, title): INSERT ... ON CONFLICT DO UPDATE SET title,
\* processed_at, status = 'pending'
markPending(rows, e, title) ==
  IF HasRow(rows, e)
    THEN (rows \ {RowOf(rows, e)}) \cup
           {[RowOf(rows, e) EXCEPT !.title = title, !.status = "pending"]}
    ELSE rows \cup {[event_id |-> e, title |-> title, status |-> "pending",
                     task_ids |-> "<null>"]}

\* markApproved(eventId, taskIds): UPDATE ... SET status, task_ids WHERE event_id
markApproved(rows, e, task_ids) ==
  {IF r.event_id = e THEN [r EXCEPT !.status = "approved", !.task_ids = task_ids]
                     ELSE r : r \in rows}

\* markDismissed(eventId, title?): INSERT ... ON CONFLICT DO UPDATE SET
\* status = 'dismissed'
markDismissed(rows, e, title) ==
  IF HasRow(rows, e)
    THEN (rows \ {RowOf(rows, e)}) \cup {[RowOf(rows, e) EXCEPT !.status = "dismissed"]}
    ELSE rows \cup {[event_id |-> e, title |-> title, status |-> "dismissed",
                     task_ids |-> "<null>"]}

\* taskIds.join(",") of the ids matched in the agent's reply
TaskIdTexts == {"", "1234567890"}

\* -- the store's methods called directly ---------------------------------
StoreKeys == 1..NumStoreKeys

\* titles passed by callers; markDismissed(eventId) stores title ?? ""
StoreTitles == {EventTitle, ""}

StoreMarkPending(e, title) ==
  /\ processed_meetings' = markPending(processed_meetings, e, title)
  /\ UNCHANGED <<previews, modal, sync, syncPrev, syncLast, runsDone>>
  /\ UNCHANGED notMeet

StoreMarkApproved(e, task_ids) ==
  /\ processed_meetings' = markApproved(processed_meetings, e, task_ids)
  /\ UNCHANGED <<previews, modal, sync, syncPrev, syncLast, runsDone>>
  /\ UNCHANGED notMeet

StoreMarkDismissed(e, title) ==
  /\ processed_meetings' = markDismissed(processed_meetings, e, title)
  /\ UNCHANGED <<previews, modal, sync, syncPrev, syncLast, runsDone>>
  /\ UNCHANGED notMeet

\* -- the buttons of a posted preview and the edit modal --------------------
\* a click on the approve button: views.open; the store is not touched
MeetingApprove(e, opened) ==
  /\ previews[e].buttons
  /\ modal[e] = "none"
  /\ modal' = [modal EXCEPT ![e] = IF opened THEN "open" ELSE "none"]
  /\ UNCHANGED <<processed_meetings, previews, sync, syncPrev, syncLast, runsDone>>
  /\ UNCHANGED notMeet

\* the modal is submitted: the handler sends the prompt to the product-owner
\* agent and awaits the reply
MeetingEditSubmit(e) ==
  /\ modal[e] = "open"
  /\ modal' = [modal EXCEPT ![e] = "sending"]
  /\ UNCHANGED <<processed_meetings, previews, sync, syncPrev, syncLast, runsDone>>
  /\ UNCHANGED notMeet

\* a2a.sendMessage returned (it never throws): the ids found in the reply
\* are stored with markApproved, then chat.update is awaited
MeetingEditReplied(e, reply) ==
  /\ modal[e] = "sending"
  /\ processed_meetings' =
       markApproved(processed_meetings, e,
                    IF reply = "result_with_ids" THEN "1234567890" ELSE "")
  /\ modal' = [modal EXCEPT ![e] = "updating"]
  /\ UNCHANGED <<previews, sync, syncPrev, syncLast, runsDone>>
  /\ UNCHANGED notMeet

\* chat.update replaced the preview's blocks (or failed)
MeetingEditUpdated(e, ok) ==
  /\ modal[e] = "updating"
  /\ modal' = [modal EXCEPT ![e] = "none"]
  /\ previews' = [previews EXCEPT ![e].buttons = IF ok THEN FALSE ELSE @]
  /\ UNCHANGED <<processed_meetings, sync, syncPrev, syncLast, runsDone>>
  /\ UNCHANGED notMeet

\* a click on the dismiss button: markDismissed, then chat.update
MeetingDismiss(e, ok) ==
  /\ previews[e].buttons
  /\ processed_meetings' = markDismissed(processed_meetings, e, "")
  /\ previews' = [previews EXCEPT ![e].buttons = IF ok THEN FALSE ELSE @]
  /\ UNCHANGED <<modal, sync, syncPrev, syncLast, runsDone>>
  /\ UNCHANGED notMeet

\* -- MeetingSyncService.checkRecentMeetings --------------------------------
NoMeeting == 0

NoSync ==
  [active |-> FALSE, pc |-> "idle", todo |-> {}, cur |-> NoMeeting,
   found |-> {}, posted |-> {}, skipped |-> {}]

NoSyncResult == [found |-> {}, posted |-> {}, skipped |-> {}]

\* the next event of the listing, in calendar order
NextEvent(todo) == CHOOSE e \in todo : \A f \in todo : e <= f

\* what looking up and analysing the transcript of an event can come to
AnalysisOutcomes ==
  {"no_transcript", "error", "no_action_items", "no_action_items_posted",
   "action_items", "action_items_post_failed"}

\* checkRecentMeetings(subjectId) is called and lists the calendar events of
\* the window that have conference data (a failed listing finds none)
SyncStart(listing) ==
  /\ ~sync.active
  /\ runsDone < MaxRuns
  /\ sync' = [NoSync EXCEPT !.active = TRUE, !.pc = "check", !.todo = listing,
                            !.found = listing]
  /\ UNCHANGED <<processed_meetings, previews, modal, syncPrev, syncLast, runsDone>>
  /\ UNCHANGED notMeet

\* (b) the next event: an event that is already processed is skipped
SyncCheckEvent ==
  /\ sync.active
  /\ sync.pc = "check"
  /\ sync.todo # {}
  /\ LET e == NextEvent(sync.todo) IN
       sync' = IF isProcessed(e)
                 THEN [sync EXCEPT !.todo = @ \ {e}, !.skipped = @ \cup {e}]
                 ELSE [sync EXCEPT !.todo = @ \ {e}, !.cur = e, !.pc = "analyse"]
  /\ UNCHANGED <<processed_meetings, previews, modal, syncPrev, syncLast, runsDone>>
  /\ UNCHANGED notMeet

\* (b)-(d) the transcript lookup, the meeting-notes LLM and the outcome: no
\* transcript is a skip; an analysis with action items is marked pending and
\* posted as a preview. For an analysis without action items the spec marks
\* the event dismissed and posts nothing, the repository's test of the
\* service expects a preview and a record: both are outcomes here.
SyncAnalyseEvent(outcome) ==
  /\ sync.active
  /\ sync.pc = "analyse"
  /\ LET e == sync.cur
         post == outcome \in {"action_items", "no_action_items_posted"}
     IN
       /\ processed_meetings' =
            CASE outcome \in {"action_items", "action_items_post_failed",
                              "no_action_items_posted"}
                   -> markPending(processed_meetings, e, EventTitle)
              [] outcome = "no_action_items"
                   -> markDismissed(processed_meetings, e, EventTitle)
              [] OTHER -> processed_meetings
       /\ previews' = IF post
                        THEN [previews EXCEPT ![e] = [posts |-> @.posts + 1, buttons |-> TRUE]]
                        ELSE previews
       /\ sync' = [sync EXCEPT
                     !.pc = "check", !.cur = NoMeeting,
                     !.posted = IF post THEN @ \cup {e} ELSE @,
                     !.skipped = IF outcome = "no_transcript" THEN @ \cup {e} ELSE @]
  /\ UNCHANGED <<modal, syncPrev, syncLast, runsDone>>
  /\ UNCHANGED notMeet

\* checkRecentMeetings returns its counts: the events found, posted and
\* skipped (the transcript and error counts depend on nothing but the
\* outcomes drawn above and are not kept)
SyncFinish ==
  /\ sync.active
  /\ sync.pc = "check"
  /\ sync.todo = {}
  /\ syncPrev' = syncLast
  /\ syncLast' = [found |-> sync.found, posted |-> sync.posted, skipped |-> sync.skipped]
  /\ runsDone' = runsDone + 1
  /\ sync' = NoSync
  /\ UNCHANGED <<processed_meetings, previews, modal>>
  /\ UNCHANGED notMeet

\* -- a second call of checkRecentMeetings, made by attemptSync while the
\* call of the meeting-sync intent handler may be running: each caller has
\* its own service object and they share the store and the channel --------
notMeetRace ==
  <<threadVars, a2aVars, schedVars, authVars, routerVars, orchVars, previewVars,
    lifeVars, agentVars, staleVars>>

TimerSyncStart(listing) ==
  /\ timerSync.pc = "idle"
  /\ timerSync' = [NoSync EXCEPT !.active = TRUE, !.pc = "check", !.todo = listing,
                                 !.found = listing]
  /\ UNCHANGED <<meetVars, notMeetRace>>

TimerSyncCheckEvent ==
  /\ timerSync.active
  /\ timerSync.pc = "check"
  /\ timerSync.todo # {}
  /\ LET e == NextEvent(timerSync.todo) IN
       timerSync' = IF isProcessed(e)
                      THEN [timerSync EXCEPT !.todo = @ \ {e}, !.skipped = @ \cup {e}]
                      ELSE [timerSync EXCEPT !.todo = @ \ {e}, !.cur = e, !.pc = "analyse"]
  /\ UNCHANGED <<meetVars, notMeetRace>>

TimerSyncAnalyseEvent(outcome) ==
  /\ timerSync.active
  /\ timerSync.pc = "analyse"
  /\ LET e == timerSync.cur
         post == outcome \in {"action_items", "no_action_items_posted"}
     IN
       /\ processed_meetings' =
            CASE outcome \in {"action_items", "action_items_post_failed",
                              "no_action_items_posted"}
                   -> markPending(processed_meetings, e, EventTitle)
              [] outcome = "no_action_items"
                   -> markDismissed(processed_meetings, e, EventTitle)
              [] OTHER -> processed_meetings
       /\ previews' = IF post
                        THEN [previews EXCEPT ![e] = [posts |-> @.posts + 1, buttons |-> TRUE]]
                        ELSE previews
       /\ timerSync' = [timerSync EXCEPT
                          !.pc = "check", !.cur = NoMeeting,
                          !.posted = IF post THEN @ \cup {e} ELSE @,
                          !.skipped = IF outcome = "no_transcript" THEN @ \cup {e} ELSE @]
  /\ UNCHANGED <<modal, sync, syncPrev, syncLast, runsDone>>
  /\ UNCHANGED notMeetRace

TimerSyncFinish ==
  /\ timerSync.active
  /\ timerSync.pc = "check"
  /\ timerSync.todo = {}
  /\ timerSync' = [timerSync EXCEPT !.active = FALSE, !.pc = "returned"]
  /\ UNCHANGED <<meetVars, notMeetRace>>

RaceInit == timerSync = NoSync

MeetInit ==
  /\ processed_meetings = {}
  /\ previews = [e \in MeetingIds |-> [posts |-> 0, buttons |-> FALSE]]
  /\ modal = [e \in MeetingIds |-> "none"]
  /\ sync = NoSync
  /\ syncPrev = NoSyncResult
  /\ syncLast = NoSyncResult
  /\ runsDone = 0

NextStore ==
  \/ \E e \in StoreKeys, title \in StoreTitles : StoreMarkPending(e, title)
  \/ \E e \in StoreKeys, t \in TaskIdTexts : StoreMarkApproved(e, t)
  \/ \E e \in StoreKeys, title \in StoreTitles : StoreMarkDismissed(e, title)

NextMeet ==
  \/ \E e \in MeetingIds, opened \in BOOLEAN : MeetingApprove(e, opened)
  \/ \E e \in MeetingIds : MeetingEditSubmit(e)
  \/ \E e \in MeetingIds, reply \in {"result_with_ids", "result", "error"} :
       MeetingEditReplied(e, reply)
  \/ \E e \in MeetingIds, ok \in BOOLEAN : MeetingEditUpdated(e, ok)
  \/ \E e \in MeetingIds, ok \in BOOLEAN : MeetingDismiss(e, ok)
  \/ \E listing \in SUBSET MeetingIds : SyncStart(listing)
  \/ SyncCheckEvent
  \/ \E outcome \in AnalysisOutcomes : SyncAnalyseEvent(outcome)
  \/ SyncFinish

\* ------------------------------------------------------------------------
\* Google OAuth (services/google-auth.ts, services/google-token-store.ts).
\* A state value is the sequence of its fields between colons, which is
\* what state.split(":") makes of it; a digest is written as the key and the
\* message it was computed from, so two digests are equal exactly when both
\* are.
\* ------------------------------------------------------------------------
AuthUsers == {"U12345", "U67890"}

signingSecret == "slack-signing-secret"

\* createHmac("sha256", key).update(msg).digest("hex")
Hmac(key, msg) == "hmac-sha256(" \o key \o "," \o msg \o ")"

\* signState(slackUserId)
signState(slackUserId) == <<slackUserId, Hmac(signingSecret, slackUserId)>>

\* the subjects and signatures a caller of the callback URL can put in state
StateSubjects == AuthUsers \cup {""}
StateSignatures ==
  {Hmac(signingSecret, u) : u \in StateSubjects} \cup
  {Hmac("guessed-secret", u) : u \in AuthUsers} \cup {"", "deadbeef"}
OAuthStates ==
  {<<u>> : u \in StateSubjects} \cup
  {<<u, sig>> : u \in StateSubjects, sig \in StateSignatures} \cup
  {<<u, Hmac(signingSecret, u), "x">> : u \in AuthUsers}

\* the value of verifyState for a state it rejects
Null == "<null>"

\* a verifyState that does not compare the signature
verifyState_Unsigned(state) ==
  IF Len(state) # 2 THEN Null ELSE state[1]

\* verifyState(state)
verifyState(state) ==
  IF Len(state) # 2 THEN Null
  ELSE IF state[2] # Hmac(signingSecret, state[1]) THEN Null
  ELSE state[1]

\* !x of a string or of an absent value
Falsy(x) == x \in {Undefined, Null, ""}

\* SCOPES.join(" ")
DefaultScope == "calendar drive"

NoToken ==
  [present |-> FALSE, access_token |-> "", refresh_token |-> "", expiry_date |-> 0,
   scope |-> ""]

\* tokenStore.get / has / upsert / delete
tokenGet(userId) == google_tokens[userId]
tokenHas(userId) == google_tokens[userId].present
tokenUpsert(store, userId, record) == [store EXCEPT ![userId] = record]
tokenDelete(store, userId) == [store EXCEPT ![userId] = NoToken]

\* isConnected(slackUserId)
isConnected(slackUserId) == tokenHas(slackUserId)

\* what oauth2Client.getToken(code) resolves with (an absent expiry_date is
\* written 0 and a present one lies TokenLifetime after now) or that it rejects
TokenResponses ==
  [kind : {"tokens"}, access_token : {Undefined, "ya29.first"},
   refresh_token : {Undefined, "", "1//refresh"}, has_expiry : BOOLEAN,
   scope : {Undefined, "calendar"}]
  \cup {[kind |-> "reject", access_token |-> Undefined, refresh_token |-> Undefined,
         has_expiry |-> FALSE, scope |-> Undefined]}

\* what oauth2Client.refreshAccessToken() resolves with, or that it rejects
RefreshResponses ==
  [kind : {"credentials"}, access_token : {Undefined, "ya29.second"}, has_expiry : BOOLEAN]
  \cup {[kind |-> "reject", access_token |-> Undefined, has_expiry |-> FALSE]}

NoAuthCall ==
  [op |-> "none", pc |-> "done", user |-> "", state |-> <<>>, record |-> NoToken,
   error |-> "", exchanged |-> FALSE, upserted |-> FALSE, expired |-> FALSE,
   refreshCalls |-> 0, refreshOk |-> FALSE, written |-> NoToken,
   revoked |-> FALSE]

AuthRunning == BagToSet(authCalls)

RefreshInFlight == \E c \in AuthRunning : c.pc = "refresh"

\* MaxAuthCalls calls are explored, and MaxOverlapCalls more that start
\* while a getClient call awaits its refresh
CanStartAuth ==
  authStarted < MaxAuthCalls + (IF RefreshInFlight THEN MaxOverlapCalls ELSE 0)

InvalidState == "Invalid or tampered OAuth state"
MissingTokens == "Missing tokens in OAuth response"
NotConnected == "No Google tokens found. Please connect with /google connect"

\* handleCallback(code, state) up to the await of getToken
HandleCallback(state) ==
  /\ CanStartAuth
  /\ authStarted' = authStarted + 1
  /\ LET slackUserId == verifyState(state)
         call == [NoAuthCall EXCEPT !.op = "handleCallback", !.state = state]
     IN IF Falsy(slackUserId)
          THEN /\ authLast' = [call EXCEPT !.error = InvalidState]
               /\ UNCHANGED <<google_tokens, authCalls>>
          ELSE /\ authCalls' = authCalls (+)
                     SetToBag({[call EXCEPT !.pc = "getToken", !.user = slackUserId,
                                            !.exchanged = TRUE]})
               /\ UNCHANGED <<google_tokens, authLast>>
  /\ UNCHANGED now
  /\ UNCHANGED notAuth

\* a token response that lacks the access token only
tokensComplete_AccessOnly(tokens) == ~Falsy(tokens.access_token)

\* !(!tokens.access_token || !tokens.refresh_token)
tokensComplete(tokens) == ~Falsy(tokens.access_token) /\ ~Falsy(tokens.refresh_token)

\* the record handleCallback builds from the tokens
callbackRecord(tokens, t) ==
  [present |-> TRUE,
   access_token |-> tokens.access_token,
   refresh_token |-> tokens.refresh_token,
   expiry_date |-> IF tokens.has_expiry THEN t + TokenLifetime ELSE 0,
   scope |-> IF tokens.scope = Undefined THEN DefaultScope ELSE tokens.scope]

\* getToken settled: the rest of handleCallback
TokenExchanged(c, resp) ==
  /\ c.pc = "getToken"
  /\ authCalls' = authCalls (-) SetToBag({c})
  /\ IF resp.kind = "reject"
       THEN /\ authLast' = [c EXCEPT !.pc = "done", !.error = "invalid_grant"]
            /\ UNCHANGED google_tokens
       ELSE IF ~tokensComplete(resp)
         THEN /\ authLast' = [c EXCEPT !.pc = "done", !.error = MissingTokens]
              /\ UNCHANGED google_tokens
         ELSE /\ google_tokens' = tokenUpsert(google_tokens, c.user, callbackRecord(resp, now))
              /\ authLast' = [c EXCEPT !.pc = "done", !.upserted = TRUE,
                                       !.written = callbackRecord(resp, now)]
  /\ UNCHANGED <<authStarted, now>>
  /\ UNCHANGED notAuth

\* record.expiry_date && record.expiry_date < Date.now()
needsRefresh(record, t) == record.expiry_date # 0 /\ record.expiry_date < t

\* getClient(slackUserId) up to the await of refreshAccessToken
GetClient(slackUserId) ==
  /\ CanStartAuth
  /\ authStarted' = authStarted + 1
  /\ LET record == tokenGet(slackUserId)
         call == [NoAuthCall EXCEPT !.op = "getClient", !.user = slackUserId,
                                    !.record = record]
     IN IF ~record.present
          THEN /\ authLast' = [call EXCEPT !.error = NotConnected]
               /\ UNCHANGED authCalls
          ELSE IF needsRefresh(record, now)
            THEN /\ authCalls' = authCalls (+)
                       SetToBag({[call EXCEPT !.pc = "refresh", !.refreshCalls = 1,
                                              !.expired = record.expiry_date < now]})
                 /\ UNCHANGED authLast
            ELSE /\ authLast' = [call EXCEPT !.expired = record.expiry_date < now]
                 /\ UNCHANGED authCalls
  /\ UNCHANGED <<google_tokens, now>>
  /\ UNCHANGED notAuth

\* { ...record, access_token: credentials.access_token ?? record.access_token,
\*   expiry_date: credentials.expiry_date ?? record.expiry_date }
refreshedRecord(record, credentials, t) ==
  [record EXCEPT
     !.access_token = IF credentials.access_token = Undefined
                        THEN @ ELSE credentials.access_token,
     !.expiry_date = IF credentials.has_expiry THEN t + TokenLifetime ELSE @]

\* refreshAccessToken settled: the rest of getClient
TokenRefreshed(c, resp) ==
  /\ c.pc = "refresh"
  /\ authCalls' = authCalls (-) SetToBag({c})
  /\ IF resp.kind = "reject"
       THEN /\ authLast' = [c EXCEPT !.pc = "done", !.error = "invalid_grant"]
            /\ UNCHANGED google_tokens
       ELSE /\ google_tokens' =
                 tokenUpsert(google_tokens, c.user, refreshedRecord(c.record, resp, now))
            /\ authLast' = [c EXCEPT !.pc = "done", !.refreshOk = TRUE, !.upserted = TRUE,
                                     !.written = refreshedRecord(c.record, resp, now)]
  /\ UNCHANGED <<authStarted, now>>
  /\ UNCHANGED notAuth

\* disconnect(slackUserId) up to the await of revokeToken
Disconnect(slackUserId) ==
  /\ CanStartAuth
  /\ authStarted' = authStarted + 1
  /\ LET record == tokenGet(slackUserId)
         call == [NoAuthCall EXCEPT !.op = "disconnect", !.user = slackUserId,
                                    !.record = record]
     IN IF record.present
          THEN /\ authCalls' = authCalls (+) SetToBag({[call EXCEPT !.pc = "revoke"]})
               /\ UNCHANGED authLast
          ELSE /\ authLast' = call
               /\ UNCHANGED authCalls
  /\ UNCHANGED <<google_tokens, now>>
  /\ UNCHANGED notAuth

\* a disconnect without the try/catch around revokeToken
revokeCatch_Rethrows(revoked) ==
  [delete |-> revoked, error |-> IF revoked THEN "" ELSE "revocation failed"]

\* the try/catch around revokeToken and the delete after it: whether the
\* record is deleted and what disconnect rejects with ("" is a normal return)
revokeCatch(revoked) == [delete |-> TRUE, error |-> ""]

\* revokeToken settled; revoked tells whether it resolved
TokenRevoked(c, revoked) ==
  /\ c.pc = "revoke"
  /\ authCalls' = authCalls (-) SetToBag({c})
  /\ google_tokens' = IF revokeCatch(revoked).delete
                        THEN tokenDelete(google_tokens, c.user)
                        ELSE google_tokens
  /\ authLast' = [c EXCEPT !.pc = "done", !.revoked = revoked,
                           !.error = revokeCatch(revoked).error]
  /\ UNCHANGED <<authStarted, now>>
  /\ UNCHANGED notAuth

\* time passes
ClockTick ==
  /\ now < MaxNow
  /\ now' = now + 1
  /\ UNCHANGED <<google_tokens, authCalls, authStarted, authLast>>
  /\ UNCHANGED notAuth

AuthInit ==
  /\ google_tokens = [u \in AuthUsers |-> NoToken]
  /\ authCalls = EmptyBag
  /\ authStarted = 0
  /\ now = 1
  /\ authLast = NoAuthCall

NextAuth ==
  \/ \E state \in OAuthStates : HandleCallback(state)
  \/ \E c \in AuthRunning, resp \in TokenResponses : TokenExchanged(c, resp)
  \/ \E u \in AuthUsers : GetClient(u)
  \/ \E c \in AuthRunning, resp \in RefreshResponses : TokenRefreshed(c, resp)
  \/ \E u \in AuthUsers : Disconnect(u)
  \/ \E c \in AuthRunning, revoked \in BOOLEAN : TokenRevoked(c, revoked)
  \/ ClockTick

\* ------------------------------------------------------------------------
\* IntentRouter.classify called on its own, for any text and any behaviour
\* of the LLM call
\* ------------------------------------------------------------------------
Words ==
  {"Create", "a", "task", "board", "STATUS", "sync", "meeting", "hello",
   "calendar", "standup"}

ClassifyTexts == UNION {[1..n -> Words] : n \in 0..MaxWords}

\* what messages.create can come to: a network error, a response without a
\* text block, text that is not JSON, JSON null, or a JSON object whose
\* intent and agentKey are in or out of the expected sets or absent ("")
ClassifierReplies ==
  {LlmReply(k, "", "") : k \in {"error", "no_text", "not_json", "json_null"}} \cup
  {LlmReply("json", i, a) : i \in {"calendar", "agent-chat", "delete-board", ""},
                            a \in {"developer", "qa-bot", ""}} \cup
  {LlmReply("json_fenced", "drive", "product-owner")}

NoClassify ==
  [op |-> "none", text |-> <<>>, reply |-> LlmReply("error", "", ""),
   result |-> NoResult, llmCalled |-> FALSE]

\* one call of intentRouter.classify(message)
Classify(text, reply) ==
  /\ cls = NoClassify
  /\ cls' = [op |-> "classify", text |-> text, reply |-> reply,
             result |-> classify(text, reply),
             llmCalled |-> classifyCallsLlm(text)]
  /\ UNCHANGED notRouter

RouterInit == cls = NoClassify

NextRouter == \E text \in ClassifyTexts, reply \in ClassifierReplies : Classify(text, reply)

\* ------------------------------------------------------------------------
\* Meeting-sync orchestrator (services/meeting-sync-scheduler.ts)
\* ------------------------------------------------------------------------
\* calendar event ids; they are keys of the meeting store
OrchEvents == 1..NumOrchEvents

\* a timer handle of an entry: null, a timeout that is pending, or a
\* timeout that has fired (the handle is kept until clearTimers)
TimerStates == {"null", "pending", "fired"}

NoScheduled == [present |-> FALSE, firstTimer |-> "null", retryTimer |-> "null"]

\* where the end of a listed event lies: "future" gives both delays
\* positive, "ended" only the retry delay, "old" neither; "absent" is an
\* event that is not listed, is no Meet event or has no id or end
EventTimings == {"absent", "future", "ended", "old"}

\* what getClient and calendar.events.list give: a rejection or a listing
CalendarOutcomes ==
  {[ok |-> FALSE, items |-> [e \in OrchEvents |-> "absent"]]} \cup
  {[ok |-> TRUE, items |-> f] : f \in [OrchEvents -> EventTimings]}

\* scheduleMeeting(eventId, title, endTime): the entry it stores
scheduleMeeting(timing) ==
  [present |-> TRUE,
   firstTimer |-> IF timing = "future" THEN "pending" ELSE "null",
   retryTimer |-> IF timing \in {"future", "ended"} THEN "pending" ELSE "null"]

\* the loop of refreshSchedule: the listed events it schedules
toSchedule(o) ==
  {e \in OrchEvents : /\ o.ok
                      /\ o.items[e] # "absent"
                      /\ ~scheduled[e].present
                      /\ ~isProcessed(e)}

\* refreshSchedule after its awaits; a rejection is caught and logged
refreshSchedule(o) ==
  /\ scheduled' = [e \in OrchEvents |->
                     IF e \in toSchedule(o) THEN scheduleMeeting(o.items[e])
                                            ELSE scheduled[e]]
  /\ created' = [e \in OrchEvents |->
                   IF e \in toSchedule(o)
                     THEN [first |-> created[e].first +
                                     (IF o.items[e] = "future" THEN 1 ELSE 0),
                           retry |-> created[e].retry +
                                     (IF o.items[e] \in {"future", "ended"} THEN 1 ELSE 0)]
                     ELSE created[e]]

\* start() up to the await of its refreshSchedule
OrchStart ==
  /\ orchPhase = "new"
  /\ orchPhase' = "starting"
  /\ UNCHANGED <<scheduled, refreshTimer, stopped, refreshing, refreshFires,
                 syncing, created, attempts>>
  /\ UNCHANGED notOrch

\* the refresh of start() returns; start() sets the hourly interval
OrchStarted(o) ==
  /\ orchPhase = "starting"
  /\ refreshSchedule(o)
  /\ refreshTimer' = TRUE
  /\ orchPhase' = "running"
  /\ UNCHANGED <<stopped, refreshing, refreshFires, syncing, attempts>>
  /\ UNCHANGED notOrch

\* the interval callback: if (this.stopped) return; await refreshSchedule()
RefreshFires ==
  /\ refreshTimer
  /\ refreshFires < MaxRefreshes
  /\ refreshFires' = refreshFires + 1
  /\ refreshing' = IF stopped THEN refreshing ELSE refreshing + 1
  /\ UNCHANGED <<scheduled, refreshTimer, stopped, orchPhase, syncing, created, attempts>>
  /\ UNCHANGED notOrch

\* a refreshSchedule of the interval callback resumes with the calendar's reply
RefreshReturned(o) ==
  /\ refreshing > 0
  /\ refreshing' = refreshing - 1
  /\ refreshSchedule(o)
  /\ UNCHANGED <<refreshTimer, stopped, orchPhase, refreshFires, syncing, attempts>>
  /\ UNCHANGED notOrch

\* stop(), called by the shutdown handler once start() has returned
OrchStop ==
  /\ orchPhase = "running"
  /\ ~stopped
  /\ stopped' = TRUE
  /\ refreshTimer' = FALSE
  /\ scheduled' = [e \in OrchEvents |-> NoScheduled]
  /\ UNCHANGED <<orchPhase, refreshing, refreshFires, syncing, created, attempts>>
  /\ UNCHANGED notOrch

\* a clearTimers that leaves the retry timeout alone
clearTimers_FirstOnly(sched, e) ==
  IF sched[e].present
    THEN [sched EXCEPT ![e].firstTimer = "null"]
    ELSE sched

\* clearTimers(eventId)
clearTimers(sched, e) ==
  IF sched[e].present
    THEN [sched EXCEPT ![e].firstTimer = "null", ![e].retryTimer = "null"]
    ELSE sched

\* a first-attempt or retry timeout fires: attemptSync up to its await; the
\* retry delay is the first delay plus 13 minutes, so of two pending
\* timeouts of an entry the first-attempt one fires first
TimerFires(e, isRetry) ==
  /\ IF isRetry THEN /\ scheduled[e].retryTimer = "pending"
                     /\ scheduled[e].firstTimer # "pending"
                ELSE scheduled[e].firstTimer = "pending"
  /\ attempts' = IF isRetry THEN [attempts EXCEPT ![e].retryFired = TRUE]
                            ELSE attempts
  /\ LET fired == IF isRetry THEN [scheduled EXCEPT ![e].retryTimer = "fired"]
                             ELSE [scheduled EXCEPT ![e].firstTimer = "fired"]
     IN IF stopped
          THEN scheduled' = fired /\ UNCHANGED syncing
          ELSE IF isProcessed(e)
            THEN scheduled' = clearTimers(fired, e) /\ UNCHANGED syncing
            ELSE /\ scheduled' = fired
                 /\ syncing' = syncing (+) SetToBag({[eventId |-> e, isRetry |-> isRetry]})
  /\ UNCHANGED <<refreshTimer, stopped, orchPhase, refreshing, refreshFires, created>>
  /\ UNCHANGED notOrch

\* what checkRecentMeetings gives attemptSync. The run covers every recent
\* meeting: "posted" is a run that posted the preview of the attempt's own
\* event (and recorded it), "posted_other" one that posted previews of other
\* meetings only; "none" is previewsPosted = 0 and "throw" a rejection
SyncOutcomes == {"posted", "posted_other", "none", "throw"}

\* result.previewsPosted > 0
previewsPosted(outcome) == outcome \in {"posted", "posted_other"}

\* an attemptSync that cancels the timers after every call that returned
clearsAfterSync_EveryReturn(outcome, isRetry) == outcome # "throw"

\* an attemptSync that cancels the timers only when it gives up
clearsAfterSync_GiveUpOnly(outcome, isRetry) == outcome = "none" /\ isRetry

\* attemptSync: the outcomes after which it calls clearTimers
clearsAfterSync(outcome, isRetry) ==
  previewsPosted(outcome) \/ (outcome = "none" /\ isRetry)

notOrchMeet ==
  <<threadVars, a2aVars, schedVars, authVars, routerVars, previewVars, lifeVars,
    agentVars, staleVars, raceVars>>

\* checkRecentMeetings returns to attemptSync
SyncReturned(c, outcome) ==
  /\ syncing' = syncing (-) SetToBag({c})
  /\ scheduled' = IF clearsAfterSync(outcome, c.isRetry)
                    THEN clearTimers(scheduled, c.eventId)
                    ELSE scheduled
  /\ attempts' = IF c.isRetry THEN attempts
                 ELSE [attempts EXCEPT ![c.eventId].firstEnd =
                         IF previewsPosted(outcome) THEN "posted" ELSE "no_preview"]
  /\ processed_meetings' = IF outcome = "posted"
                             THEN markPending(processed_meetings, c.eventId, EventTitle)
                             ELSE processed_meetings
  /\ UNCHANGED <<refreshTimer, stopped, orchPhase, refreshing, refreshFires, created>>
  /\ UNCHANGED <<previews, modal, sync, syncPrev, syncLast, runsDone>>
  /\ UNCHANGED notOrchMeet

OrchInit ==
  /\ scheduled = [e \in OrchEvents |-> NoScheduled]
  /\ refreshTimer = FALSE
  /\ stopped = FALSE
  /\ orchPhase = "new"
  /\ refreshing = 0
  /\ refreshFires = 0
  /\ syncing = EmptyBag
  /\ created = [e \in OrchEvents |-> [first |-> 0, retry |-> 0]]
  /\ attempts = [e \in OrchEvents |-> [firstEnd |-> "none", retryFired |-> FALSE]]

\* the orchestrator, with the store rows that runs of checkRecentMeetings
\* and the button handlers write meanwhile
NextOrch ==
  \/ OrchStart
  \/ \E o \in CalendarOutcomes : OrchStarted(o)
  \/ RefreshFires
  \/ \E o \in CalendarOutcomes : RefreshReturned(o)
  \/ OrchStop
  \/ \E e \in OrchEvents, isRetry \in BOOLEAN : TimerFires(e, isRetry)
  \/ \E c \in BagToSet(syncing), outcome \in SyncOutcomes : SyncReturned(c, outcome)
  \/ \E e \in OrchEvents : StoreMarkPending(e, EventTitle)

\* ------------------------------------------------------------------------
\* Task preview buttons (handlers/actions.ts, registerTaskPreviewActions)
\* ------------------------------------------------------------------------
\* the user clicks Create Task while the message shows its buttons; valid
\* tells whether the message metadata yields an extracted task with a name
CreateTaskClicked(valid) ==
  /\ taskPreview = "preview"
  /\ clicksMade < MaxClicks
  /\ clicksMade' = clicksMade + 1
  /\ clickHs' = clickHs (+) SetToBag({[pc |-> "ack", valid |-> valid]})
  /\ UNCHANGED <<taskPreview, createCalls>>
  /\ UNCHANGED notPreview

\* ack() settles; the callback reads the metadata and starts the
\* chat.update of the warning or of "Creating task..."
ClickAcked(h, ok) ==
  /\ h.pc = "ack"
  /\ clickHs' = IF ok
                  THEN (clickHs (-) SetToBag({h})) (+)
                       SetToBag({[h EXCEPT !.pc = IF h.valid THEN "loading" ELSE "warn"]})
                  ELSE clickHs (-) SetToBag({h})
  /\ UNCHANGED <<taskPreview, clicksMade, createCalls>>
  /\ UNCHANGED notPreview

\* what each chat.update of the callback replaces the message with
UpdateShows(pc) ==
  CASE pc = "warn" -> "warning"
    [] pc = "loading" -> "loading"
    [] pc = "final" -> "created"
    [] pc = "fail" -> "failed"

\* a chat.update settles. After "Creating task..." the callback sends the
\* prompt to the product-owner agent; a rejection inside the try block is
\* caught and reported by one more chat.update; the callback ends after the
\* warning, the result and the failure report
PreviewUpdated(h, ok) ==
  /\ h.pc \in {"warn", "loading", "final", "fail"}
  /\ taskPreview' = IF ok THEN UpdateShows(h.pc) ELSE taskPreview
  /\ createCalls' = IF ok /\ h.pc = "loading" THEN createCalls + 1 ELSE createCalls
  /\ clickHs' =
       IF ok /\ h.pc = "loading"
         THEN (clickHs (-) SetToBag({h})) (+) SetToBag({[h EXCEPT !.pc = "a2a"]})
       ELSE IF ~ok /\ h.pc \in {"loading", "final"}
         THEN (clickHs (-) SetToBag({h})) (+) SetToBag({[h EXCEPT !.pc = "fail"]})
       ELSE clickHs (-) SetToBag({h})
  /\ UNCHANGED clicksMade
  /\ UNCHANGED notPreview

\* a2a.sendMessage returns (it never rejects); the result is shown
CreateReplied(h) ==
  /\ h.pc = "a2a"
  /\ clickHs' = (clickHs (-) SetToBag({h})) (+) SetToBag({[h EXCEPT !.pc = "final"]})
  /\ UNCHANGED <<taskPreview, clicksMade, createCalls>>
  /\ UNCHANGED notPreview

PreviewInit ==
  /\ taskPreview = "preview"
  /\ clickHs = EmptyBag
  /\ clicksMade = 0
  /\ createCalls = 0

NextPreview ==
  \/ \E valid \in BOOLEAN : CreateTaskClicked(valid)
  \/ \E h \in BagToSet(clickHs), ok \in BOOLEAN : ClickAcked(h, ok)
  \/ \E h \in BagToSet(clickHs), ok \in BOOLEAN : PreviewUpdated(h, ok)
  \/ \E h \in BagToSet(clickHs) : CreateReplied(h)

\* ------------------------------------------------------------------------
\* Calendar and drive micro-agents (services/google-calendar-agent.ts,
\* services/google-drive-agent.ts): handleRequest
\* ------------------------------------------------------------------------
maxIterations == 5

MaxStepsMessage == "I hit the maximum number of steps. Please try a simpler request."

AgentKinds == {"calendar", "drive"}

\* the text blocks a reply can hold
AgentTexts == { <<>>, <<"">>, <<"Booked.">>, <<"Booked.", "See you.">> }

\* what messages.create resolves with: text blocks and tool_use blocks, or
\* that it rejects
AgentReplies ==
  [kind : {"message"}, textParts : AgentTexts, toolUses : 0..MaxToolUses] \cup
  {[kind |-> "reject", textParts |-> <<>>, toolUses |-> 0]}

\* textParts.join("\n")
RECURSIVE join(_)
join(textParts) ==
  IF textParts = <<>> THEN ""
  ELSE IF Len(textParts) = 1 THEN textParts[1]
  ELSE textParts[1] \o "\n" \o join(Tail(textParts))

\* textParts.join("\n") || "Done."
finalText(textParts) == IF join(textParts) = "" THEN "Done." ELSE join(textParts)

NoAgentRun ==
  [pc |-> "idle", agent |-> "none", iterations |-> 0, llmCalls |-> 0,
   reply |-> [kind |-> "reject", textParts |-> <<>>, toolUses |-> 0],
   outcome |-> "none", result |-> ""]

\* a loop test that lets one more iteration through
loopContinues_OffByOne(iterations) == iterations <= maxIterations

\* while (iterations < maxIterations)
loopContinues(iterations) == iterations < maxIterations

\* the loop test, and either iterations++ and messages.create or the
\* return after the loop
loopTurn(run) ==
  IF loopContinues(run.iterations)
    THEN [run EXCEPT !.pc = "llm", !.iterations = @ + 1, !.llmCalls = @ + 1]
    ELSE [run EXCEPT !.pc = "done", !.outcome = "returned", !.result = MaxStepsMessage]

\* handleRequest(userMessage, ...) up to the await of the first messages.create
AgentRequest(agent) ==
  /\ agentRun.pc = "idle"
  /\ agentRun' = loopTurn([NoAgentRun EXCEPT !.agent = agent])
  /\ UNCHANGED notAgent

\* messages.create settles: a rejection leaves handleRequest; a reply
\* without tool_use blocks is returned; otherwise the tools are executed
AgentLlmReplied(reply) ==
  /\ agentRun.pc = "llm"
  /\ agentRun' =
       IF reply.kind = "reject"
         THEN [agentRun EXCEPT !.pc = "done", !.reply = reply, !.outcome = "thrown"]
       ELSE IF reply.toolUses = 0
         THEN [agentRun EXCEPT !.pc = "done", !.reply = reply, !.outcome = "returned",
                               !.result = finalText(reply.textParts)]
       ELSE [agentRun EXCEPT !.pc = "tools", !.reply = reply]
  /\ UNCHANGED notAgent

\* every executeTool of the reply has settled (it catches what the tool
\* throws and returns an error object); the loop goes round
AgentToolsExecuted ==
  /\ agentRun.pc = "tools"
  /\ agentRun' = loopTurn(agentRun)
  /\ UNCHANGED notAgent

AgentInit == agentRun = NoAgentRun

NextAgent ==
  \/ \E agent \in AgentKinds : AgentRequest(agent)
  \/ \E reply \in AgentReplies : AgentLlmReplied(reply)
  \/ AgentToolsExecuted

\* ------------------------------------------------------------------------
\* Stale-task job (scheduler/jobs/stale-task-checker.ts): execute
\* ------------------------------------------------------------------------
NO_STALE_SENTINEL == <<"NO_STALE_TASKS">>

SUPPRESSED_PATTERNS ==
  { <<"provide", "the", "board", "id">>, <<"provide", "the", "correct">>,
    <<"need", "a", "valid", "board">>, <<"need", "the", "board", "id">>,
    <<"could", "you", "please", "provide">>, <<"i", "need", "a">>,
    <<"i", "don't", "have", "access">>, <<"unable", "to", "locate">> }

\* texts of the scrum-master's reply, as word sequences
StaleTexts ==
  { <<>>, <<"NO_STALE_TASKS">>, <<"Result:", "NO_STALE_TASKS", "today">>,
    <<"no_stale_tasks">>, <<"I", "need", "a", "board", "NO_STALE_TASKS">>,
    <<"I", "need", "a", "board">>, <<"Task", "7", "is", "stale">> }

TextPart(text) == [kind |-> "text", text |-> text]
DataPart == [kind |-> "data", text |-> <<>>]

\* task.status.message.parts of a returned task; <<"no message">> stands
\* for a task whose status has no message
StaleParts ==
  {<<>>} \cup {<<TextPart(t)>> : t \in StaleTexts} \cup
  {<<DataPart, TextPart(t)>> : t \in StaleTexts} \cup
  {<<TextPart(t), TextPart(u)>> : t \in StaleTexts, u \in StaleTexts}

\* what a2a.sendMessage resolves with: error and result may each be absent
StaleResponses ==
  [error : BOOLEAN, result : BOOLEAN, message : BOOLEAN, parts : StaleParts]

TaskStateText == <<"[Agent", "task", "t-1", "is", "completed]">>

\* extractTextFromTask(task): the text of the first text part of
\* task.status.message, else the bracketed task state
extractTextFromTask(task) ==
  LET texts == SelectSeq(task.parts, LAMBDA p : p.kind = "text")
  IN IF task.message /\ texts # <<>> THEN texts[1].text ELSE TaskStateText

StaleSuccess(posted) == [success |-> TRUE, posted |-> posted, error |-> "<none>"]
StaleFailure(error) == [success |-> FALSE, posted |-> FALSE, error |-> error]

\* an execute that looks for the confused-agent patterns before the sentinel
executeDecision_PatternsFirst(response) ==
  IF response.error THEN [post |-> FALSE, result |-> StaleFailure("A2A error")]
  ELSE IF ~response.result
    THEN [post |-> FALSE, result |-> StaleFailure("No result from scrum-master agent")]
  ELSE LET text == extractTextFromTask(response)
       IN IF some(SUPPRESSED_PATTERNS, toLowerCase(text))
            THEN [post |-> FALSE, result |-> StaleFailure("Agent could not access the board")]
          ELSE IF includes(text, NO_STALE_SENTINEL)
            THEN [post |-> FALSE, result |-> StaleSuccess(FALSE)]
          ELSE [post |-> TRUE, result |-> StaleSuccess(TRUE)]

\* execute from the return of sendMessage to its return or to the call of
\* chat.postMessage
executeDecision(response) ==
  IF response.error THEN [post |-> FALSE, result |-> StaleFailure("A2A error")]
  ELSE IF ~response.result
    THEN [post |-> FALSE, result |-> StaleFailure("No result from scrum-master agent")]
  ELSE LET text == extractTextFromTask(response)
       IN IF includes(text, NO_STALE_SENTINEL)
            THEN [post |-> FALSE, result |-> StaleSuccess(FALSE)]
          ELSE IF some(SUPPRESSED_PATTERNS, toLowerCase(text))
            THEN [post |-> FALSE, result |-> StaleFailure("Agent could not access the board")]
          ELSE [post |-> TRUE, result |-> StaleSuccess(TRUE)]

NoStaleRun ==
  [pc |-> "idle", response |-> [error |-> FALSE, result |-> FALSE, message |-> FALSE,
                                parts |-> <<>>],
   posts |-> 0, outcome |-> "none", result |-> StaleFailure("<none>")]

\* execute(ctx) up to the await of sendMessage
StaleExecute ==
  /\ staleRun.pc = "idle"
  /\ staleRun' = [NoStaleRun EXCEPT !.pc = "a2a"]
  /\ UNCHANGED notStale

\* sendMessage resolves (it does not reject)
StaleReplied(response) ==
  /\ staleRun.pc = "a2a"
  /\ staleRun' =
       IF executeDecision(response).post
         THEN [staleRun EXCEPT !.pc = "post", !.response = response, !.posts = @ + 1]
         ELSE [staleRun EXCEPT !.pc = "done", !.response = response,
                               !.outcome = "returned",
                               !.result = executeDecision(response).result]
  /\ UNCHANGED notStale

\* chat.postMessage settles; a rejection leaves execute
StalePosted(ok) ==
  /\ staleRun.pc = "post"
  /\ staleRun' = IF ok
                   THEN [staleRun EXCEPT !.pc = "done", !.outcome = "returned",
                                         !.result = executeDecision(staleRun.response).result]
                   ELSE [staleRun EXCEPT !.pc = "done", !.outcome = "thrown"]
  /\ UNCHANGED notStale

StaleInit == staleRun = NoStaleRun

NextStale ==
  \/ StaleExecute
  \/ \E response \in StaleResponses : StaleReplied(response)
  \/ \E ok \in BOOLEAN : StalePosted(ok)

\* the manual run and the run of a timer attempt, side by side
NextMeetRace ==
  \/ \E listing \in SUBSET MeetingIds : SyncStart(listing)
  \/ SyncCheckEvent
  \/ \E outcome \in AnalysisOutcomes : SyncAnalyseEvent(outcome)
  \/ SyncFinish
  \/ \E listing \in SUBSET MeetingIds : TimerSyncStart(listing)
  \/ TimerSyncCheckEvent
  \/ \E outcome \in AnalysisOutcomes : TimerSyncAnalyseEvent(outcome)
  \/ TimerSyncFinish

\* ------------------------------------------------------------------------
\* Process start and graceful shutdown (index.ts)
\* ------------------------------------------------------------------------
NoProc ==
  [phase |-> "new", scheduler |-> FALSE, tokenStore |-> "none", meetingStore |-> "none"]

\* the module body and the start function up to the scheduler block:
\* GOOGLE_CLIENT_ID opens the token store; the meeting store is opened when
\* meeting sync is enabled, has a Slack user and Google is configured
LifeBoot(google, meetingSync, schedulerEnabled) ==
  /\ proc.phase = "new"
  /\ proc' = [phase |-> "running", scheduler |-> schedulerEnabled,
              tokenStore |-> IF google THEN "open" ELSE "none",
              meetingStore |-> IF meetingSync /\ google THEN "open" ELSE "none"]
  /\ UNCHANGED notLife

\* gracefulShutdown is registered after scheduler.startAll, and only when
\* the scheduler is enabled
shutdownRegistered == proc.scheduler /\ schedPhase # "setup"

\* SIGINT or SIGTERM. With the handler: scheduler.stopAll(), the
\* orchestrator's stop(), meetingStore.close(), process.exit(0); without
\* it the signal ends the process at once
LifeSignal ==
  /\ proc.phase = "running"
  /\ proc' = [proc EXCEPT !.phase = "exited",
                          !.meetingStore = IF shutdownRegistered /\ @ = "open"
                                             THEN "closed" ELSE @]
  /\ jobs' = IF shutdownRegistered
               THEN [j \in JobIds |-> [jobs[j] EXCEPT !.task = FALSE]] ELSE jobs
  /\ schedPhase' = IF shutdownRegistered THEN "stopped" ELSE schedPhase
  /\ UNCHANGED <<inFlight, ticks, skips, execs>>
  /\ IF shutdownRegistered /\ proc.meetingStore = "open"
       THEN /\ stopped' = TRUE
            /\ refreshTimer' = FALSE
            /\ scheduled' = [e \in OrchEvents |-> NoScheduled]
       ELSE UNCHANGED <<stopped, refreshTimer, scheduled>>
  /\ UNCHANGED <<orchPhase, refreshing, refreshFires, syncing, created, attempts>>
  /\ UNCHANGED <<threadVars, a2aVars, meetVars, authVars, routerVars, previewVars,
                 agentVars, staleVars, raceVars>>

LifeInit == proc = NoProc

\* the process with its cron scheduler
NextLife ==
  \/ \E google \in BOOLEAN, meetingSync \in BOOLEAN, schedulerEnabled \in BOOLEAN :
       LifeBoot(google, meetingSync, schedulerEnabled)
  \/ LifeSignal
  \/ proc.phase = "running" /\ proc.scheduler /\ NextSched

Init ==
  /\ ThreadInit /\ A2AInit /\ SchedInit /\ MeetInit /\ AuthInit /\ RouterInit
  /\ OrchInit /\ PreviewInit /\ LifeInit /\ AgentInit /\ StaleInit
  /\ RaceInit

Next ==
  \/ DeliverMention
  \/ \E h \in Running, ok \in BOOLEAN, sayOk \in BOOLEAN : MentionResolved(h, ok, sayOk)
  \/ MessageDropped
  \/ MessageIgnored
  \/ DeliverDM
  \/ DeliverReply
  \/ \E h \in Running, sayOk \in BOOLEAN, reply \in HandlerLlmReplies :
       Classified(h, sayOk, reply)
  \/ \E h \in Running, ok \in BOOLEAN : ChatLoaded(h, ok)
  \/ \E h \in Running, sayOk \in BOOLEAN : A2AReturned(h, sayOk)
  \/ \E h \in Running, ok \in BOOLEAN : IntentHandlerRan(h, ok)

\* the message callback of thread.ts alone
NextMessage ==
  \/ MessageDropped
  \/ MessageIgnored
  \/ DeliverDM
  \/ DeliverReply
  \/ \E h \in Running, sayOk \in BOOLEAN, reply \in HandlerLlmReplies :
       Classified(h, sayOk, reply)
  \/ \E h \in Running, ok \in BOOLEAN : ChatLoaded(h, ok)
  \/ \E h \in Running, sayOk \in BOOLEAN : A2AReturned(h, sayOk)
  \/ \E h \in Running, ok \in BOOLEAN : IntentHandlerRan(h, ok)

Spec == Init /\ [][Next]_vars

SpecMessage == Init /\ [][NextMessage]_vars

SpecA2A == Init /\ [][NextA2A]_vars

SpecSched == Init /\ [][NextSched]_vars

SpecMeet == Init /\ [][NextMeet]_vars

SpecStore == Init /\ [][NextStore]_vars

SpecAuth == Init /\ [][NextAuth]_vars

SpecRouter == Init /\ [][NextRouter]_vars

SpecOrch == Init /\ [][NextOrch]_vars

SpecPreview == Init /\ [][NextPreview]_vars

SpecLife == Init /\ [][NextLife]_vars

SpecAgent == Init /\ [][NextAgent]_vars

SpecStale == Init /\ [][NextStale]_vars

SpecMeetRace == Init /\ [][NextMeetRace]_vars

\* the runtime fires a pending timeout once its delay has elapsed
SpecOrchLive ==
  Init /\ [][NextOrch]_vars /\ \A e \in OrchEvents : WF_vars(TimerFires(e, TRUE))

\* ------------------------------------------------------------------------
\* Properties
\* ------------------------------------------------------------------------

\* C1: once ThreadSession[T].contextId has been assigned, no step of any
\* mention, direct-message or threaded-reply callback changes it.
C1_ContextIdNeverChanges ==
  [][\A t \in TsSet :
       threadMap[t] # NoMapping => threadMap'[t].contextId = threadMap[t].contextId]_vars

\* C2: sendMessage and getTask never throw; a transport failure (connection
\* error, non-2xx status, timeout) yields error.code = -32000 and a JSON-RPC
\* failure yields the error the server supplied.
C2_A2AFailureSafety ==
  rpcCall.op # "none" =>
    /\ ~rpcCall.threw
    /\ TransportFailure(rpcCall.outcome) =>
         /\ "error" \in DOMAIN rpcCall.response
         /\ rpcCall.response.error.code = -32000
    /\ JsonRpcFailure(rpcCall.outcome) =>
         /\ "error" \in DOMAIN rpcCall.response
         /\ rpcCall.response.error = rpcCall.outcome.error

\* a call whose request timed out has returned
C2_Witness ==
  /\ rpcCall.op = "sendMessage"
  /\ rpcCall.outcome.kind = "silent"
  /\ rpcCall.response.id = rpcCall.request.id

\* C10: a message event with a bot_id, a subtype or the bot's own user id
\* causes no Slack post, no classifier or LLM call, no A2A request, no write
\* to the thread-session store and no exception: it is dropped.
C10_MessageLoopSuppression ==
  \A e \in log : e.kind = "message" => e.op = "drop"

\* such an event was delivered and dropped
C10_Witness == [op |-> "drop", kind |-> "message"] \in log

\* C3: at most one execute of a job is in flight at any time; a tick that
\* fires while one is in flight starts no execute and queues nothing (the
\* only record a skipped tick leaves is the skip itself).
C3_OverlapGuard ==
  /\ \A j \in JobIds : inFlight[j] <= 1
  /\ \A j \in JobIds : inFlight[j] = 1 <=> jobs[j].running

\* a tick of a job was skipped while its execute is still in flight
C3_Witness == \E j \in JobIds : skips[j] > 0 /\ inFlight[j] = 1

\* C4: two runs of checkRecentMeetings in succession post a preview at most
\* once per event: an event the first run posted and the second run lists
\* again is counted as skipped by the second run, and no event is posted by
\* both. Nothing a user can do in between removes a record, so the property
\* is stated for every pair of successive runs.
C4_SyncIdempotent ==
  /\ \A e \in MeetingIds : previews[e].posts <= 1
  /\ runsDone >= 2 =>
       /\ syncPrev.posted \cap syncLast.posted = {}
       /\ \A e \in syncPrev.posted : e \in syncLast.found => e \in syncLast.skipped

\* the second of two runs has skipped an event the first one posted, with no
\* user action in between: the preview still has its buttons, no modal was
\* opened and the record is still pending
C4_Witness ==
  /\ runsDone = 2
  /\ \E e \in syncPrev.posted :
       /\ e \in syncLast.skipped
       /\ previews[e] = [posts |-> 1, buttons |-> TRUE]
       /\ modal[e] = "none"
       /\ [event_id |-> e, title |-> EventTitle, status |-> "pending",
           task_ids |-> "<null>"] \in processed_meetings

\* C5: approved and dismissed are terminal: a record that has reached one of
\* them keeps that status in every later step (so the only status changes
\* are pending to approved and pending to dismissed).
C5_StatusTerminal ==
  [][\A r \in processed_meetings :
       r.status \in {"approved", "dismissed"} =>
         \E q \in processed_meetings' : q.event_id = r.event_id /\ q.status = r.status]_vars

\* C6: after any sequence of markPending, markApproved and markDismissed
\* calls, isProcessed(e) is true exactly when the table holds a record for e,
\* in whichever of the three statuses, and the table holds at most one.
C6_ProcessedIffRecord ==
  \A e \in StoreKeys :
    /\ isProcessed(e) <=>
         \E r \in processed_meetings : r.event_id = e /\ r.status \in MeetingStatuses
    /\ Cardinality({r \in processed_meetings : r.event_id = e}) <= 1

\* one event has a dismissed record and is processed, another has none and
\* is not
C6_Witness ==
  \E e, f \in StoreKeys :
    /\ \E r \in processed_meetings : r.event_id = e /\ r.status = "dismissed"
    /\ isProcessed(e)
    /\ ~isProcessed(f)
    /\ \A r \in processed_meetings : r.event_id # f

\* a state value whose signature is the HMAC of its subject under the
\* signing secret
StateAuthentic(state) ==
  Len(state) = 2 /\ state[2] = Hmac(signingSecret, state[1])

\* C7: handleCallback with a state whose HMAC does not match its subject
\* fails with InvalidState at once: no token exchange is started, the token
\* store is unchanged and isConnected keeps its value for every user.
C7_TamperedStateRejected ==
  [][\A state \in OAuthStates :
       (~StateAuthentic(state) /\ HandleCallback(state)) =>
         /\ authLast'.op = "handleCallback"
         /\ authLast'.state = state
         /\ authLast'.error = InvalidState
         /\ ~authLast'.exchanged
         /\ authCalls' = authCalls
         /\ google_tokens' = google_tokens
         /\ \A u \in AuthUsers : google_tokens'[u].present = isConnected(u)]_vars

\* a callback signed with a guessed secret was rejected while another user
\* is connected
C7_Witness ==
  /\ authLast.op = "handleCallback"
  /\ authLast.state = <<"U12345", Hmac("guessed-secret", "U12345")>>
  /\ authLast.error = InvalidState
  /\ ~isConnected("U12345")
  /\ isConnected("U67890")

\* C8: a getClient call that finds a record whose expiry_date is earlier than
\* now calls the refresh endpoint exactly once and, when the refresh
\* succeeds, upserts the refreshed record.
C8_ExpiredTokenRefreshed ==
  (authLast.op = "getClient" /\ authLast.record.present /\ authLast.expired) =>
    /\ authLast.refreshCalls = 1
    /\ authLast.refreshOk => authLast.upserted

\* C9: every record in the token store has a non-empty refresh token.
C9_RefreshTokenPresent ==
  \A u \in AuthUsers :
    google_tokens[u].present => google_tokens[u].refresh_token \notin {Undefined, Null, ""}

\* a record written back by a refresh is in the store with the refresh token
\* the callback stored
C9_Witness ==
  /\ authLast.op = "getClient"
  /\ authLast.refreshOk
  /\ google_tokens[authLast.user] = authLast.written
  /\ authLast.written.refresh_token = "1//refresh"

\* C11: an app_mention event that carries a loop marker (a bot_id, a subtype
\* or the bot's own user id) is dropped silently: it causes no Slack post, no
\* classification, no session write and no A2A call.
C11_MentionLoopSuppression ==
  \A e \in log : e.kind = "app_mention" => e.op = "drop"

\* C12: whatever the text and whatever the LLM call does (valid JSON, values
\* out of the set, text that is not JSON, no text block, a network error),
\* the intent classify returns is one of the six intents.
C12_IntentInClosedSet ==
  cls.op = "classify" => cls.result.intent \in INTENT_TYPES

\* the LLM named an intent outside the set and classify answered agent-chat
C12_Witness ==
  /\ cls.op = "classify"
  /\ cls.llmCalled
  /\ cls.reply.kind = "json"
  /\ cls.reply.intent = "delete-board"
  /\ cls.result.intent = "agent-chat"

\* C13: every message/send request of sendMessage(url, text, ctx) carries
\* params.configuration.context_id = ctx, the same in every call made with
\* that ctx; a request of sendMessage without a contextId (none given, or
\* the empty string, which is no context id) has no configuration key.
C13_ContextIdPropagated ==
  /\ \A r \in rpcSent :
       IF r.contextId \in {Undefined, ""}
         THEN ~r.configured
         ELSE r.configured /\ r.context_id = r.contextId
  /\ \A r1, r2 \in rpcSent : r1.contextId = r2.contextId => r1 = r2

\* two calls were made with ctx-1 and one configuration was seen for them
C13_Witness ==
  /\ rpcSeq = 2
  /\ rpcCall.op = "sendMessage"
  /\ rpcSent = {[contextId |-> "ctx-1", configured |-> TRUE, context_id |-> "ctx-1"]}

C15_AgentKeyStable ==
  [][\A h \in Running, sayOk \in BOOLEAN, reply \in HandlerLlmReplies :
       (h.kind = "app_mention" /\ Classified(h, sayOk, reply)) =>
         \A t \in TsSet :
           (threadMap[t] # NoMapping /\ threadMap'[t].agentKey # threadMap[t].agentKey)
             => threadMap'[t].intent = "agent-chat"]_vars

\* C16: while a mention or direct-message callback is suspended in a
\* long-running call (the "Thinking..." post, the classification, an A2A
\* request), the mapping of its thread key has already been written.
C16_MappingBeforeSuspension ==
  \A h \in Running :
    (h.kind \in {"app_mention", "dm"} /\ h.pc = "thinking")
      => threadMap[h.key] # NoMapping

\* C17: after any sequence of completed ticks of a job, consecutiveFailures
\* is the number of executes that returned success=false or threw since the
\* last execute that returned success=true (since registration if none); a
\* successful execute resets it to 0.
C17_ConsecutiveFailures ==
  \A j \in JobIds :
    /\ jobs[j].consecutiveFailures = execs[j].failures
    /\ (execs[j].last = "return" /\ jobs[j].lastResult.success)
         => jobs[j].consecutiveFailures = 0

\* a job failed twice in succession, the second time by a throw
C17_Witness ==
  \E j \in JobIds :
    /\ jobs[j].consecutiveFailures = 2
    /\ execs[j].last = "throw"
    /\ inFlight[j] = 0

\* C18: an execute that throws does not leave the tick callback: the tick
\* records lastResult = {success: false, error: <message>} and clears
\* running, and a later tick of that job or of another job starts execute.
C18_ThrowContained ==
  [][/\ \A j \in JobIds, o \in ExecuteOutcomes :
          (o.kind = "throw" /\ Settle(j, o)) =>
            /\ execs'[j].callback = "returned"
            /\ jobs'[j].lastResult =
                 [success |-> FALSE, posted |-> FALSE, error |-> o.result.error]
            /\ ~jobs'[j].running
     /\ \A k \in JobIds :
          ((\E j \in JobIds : execs[j].last = "throw")
             /\ jobs[k].task /\ inFlight[k] = 0 /\ ticks < MaxTicks)
          => (ENABLED Tick(k)) /\ (Tick(k) => inFlight'[k] = 1)]_vars

\* after a throw of one job, that job and another job are executing again
C18_Witness ==
  \E j, k \in JobIds :
    /\ j # k
    /\ execs[j].last = "throw"
    /\ jobs[j].lastResult.error = "boom"
    /\ inFlight[j] = 1
    /\ inFlight[k] = 1

\* C19: once stop() has returned, no first-attempt, retry or refresh timer
\* is pending and no call of checkRecentMeetings is started any more,
\* whatever timers fire and whatever calendar refresh is still in flight.
C19_StopClearsTimers ==
  [][/\ stopped' =>
          /\ ~refreshTimer'
          /\ \A e \in OrchEvents : /\ scheduled'[e].firstTimer # "pending"
                                   /\ scheduled'[e].retryTimer # "pending"
     /\ stopped => BagCardinality(syncing') <= BagCardinality(syncing)]_vars

\* C20: over any number of calendar refreshes, at most one first-attempt
\* timer and at most one retry timer is ever created for an event id.
C20_OneTimerPerEvent ==
  \A e \in OrchEvents : created[e].first <= 1 /\ created[e].retry <= 1

\* C21: when the first attempt for an event posts a preview, the retry
\* timer of that event is cancelled, and from then on no retry attempt for
\* the event starts a checkRecentMeetings call.
C21_PreviewCancelsRetry ==
  [][\A e \in OrchEvents :
       LET retryCall == [eventId |-> e, isRetry |-> TRUE]
       IN /\ (attempts[e].firstEnd # "posted" /\ attempts'[e].firstEnd = "posted")
               => scheduled'[e].retryTimer # "pending"
          /\ attempts[e].firstEnd = "posted"
               => CopiesIn(retryCall, syncing') <= CopiesIn(retryCall, syncing)]_vars

\* the first attempt posted a preview while the retry timer was pending,
\* and the timer is gone without having fired
C21_Witness ==
  \E e \in OrchEvents :
    /\ attempts[e].firstEnd = "posted"
    /\ ~attempts[e].retryFired
    /\ scheduled[e].present
    /\ scheduled[e].retryTimer = "null"
    /\ ~stopped

C23_ProcessedFireCancels ==
  [][\A e \in OrchEvents, isRetry \in BOOLEAN :
       (isProcessed(e) /\ TimerFires(e, isRetry)) =>
         /\ syncing' = syncing
         /\ scheduled'[e].firstTimer # "pending"
         /\ scheduled'[e].retryTimer # "pending"]_vars

\* C24: whatever clicks are made on the Create Task button of one preview
\* message, a repeat click during the handling of the first included, at
\* most one create-task request is sent to the product-owner agent.
C24_OneCreateCall == createCalls <= 1

\* C25: when the process has exited on SIGINT or SIGTERM, every durable
\* store that was opened (token store, meeting store) has been closed.
C25_StoresClosedOnExit ==
  proc.phase = "exited" => proc.tokenStore # "open" /\ proc.meetingStore # "open"

\* C26: no exception ever escapes an app_mention or message event callback
\* to the platform receiver, whatever fails inside it.
C26_NoExceptionEscapes == escaped = {}

\* C27: when no Tier-1 keyword matches and the LLM reply is not parseable
\* JSON or names an intent outside the closed set, classify returns exactly
\* classifyFallback(text).
C27_BadReplyFallsBack ==
  /\ cls.op = "classify"
  /\ cls.llmCalled
  /\ \/ cls.reply.kind = "not_json"
     \/ /\ cls.reply.kind \in {"json", "json_fenced"}
        /\ cls.reply.intent \notin INTENT_TYPES
  => cls.result = classifyFallback(cls.text)

\* C28: whenever the text contains a Tier-1 keyword phrase, whatever its
\* case, classify makes no LLM call and returns the intent and agent of the
\* first rule of the table that has a phrase in the text.
C28_KeywordSkipsLlm ==
  LET lower == toLowerCase(cls.text)
      Hit(r) == \E k \in 1..Len(KEYWORD_RULES[r].keywords) :
                  includes(lower, KEYWORD_RULES[r].keywords[k])
  IN cls.op = "classify" =>
       \A r \in 1..Len(KEYWORD_RULES) :
         Hit(r) /\ (\A s \in 1..(r - 1) : ~Hit(s)) =>
           /\ ~cls.llmCalled
           /\ cls.result = [intent |-> KEYWORD_RULES[r].intent,
                            agentKey |-> KEYWORD_RULES[r].agentKey]

\* "calendar standup" has a phrase of the second and of the fourth rule,
\* and the second rule's board-status is returned without the LLM
C28_Witness ==
  /\ cls.op = "classify"
  /\ cls.text = <<"calendar", "standup">>
  /\ ~cls.llmCalled
  /\ cls.result = [intent |-> "board-status", agentKey |-> "scrum-master"]

\* C29: when the analysis of an unprocessed meeting has no action items,
\* checkRecentMeetings marks the event dismissed and posts no preview; only
\* an analysis with at least one action item is marked pending and posted.
C29_NoItemsDismissed ==
  [][sync.pc = "analyse" =>
       \A o \in {"no_action_items", "no_action_items_posted"} :
         SyncAnalyseEvent(o) =>
           /\ previews' = previews
           /\ sync'.posted = sync.posted
           /\ \E r \in processed_meetings' :
                r.event_id = sync.cur /\ r.status = "dismissed"]_vars

\* C30: when disconnect(subject) returns, no token record exists for the
\* subject (isConnected is false), whether or not the revocation call
\* succeeded, and disconnect does not throw because of a revocation error.
C30_DisconnectDeletes ==
  [][authStarted' # authStarted \/ authCalls' # authCalls =>
       /\ \A u \in AuthUsers :
            Disconnect(u) /\ ~tokenGet(u).present =>
              ~google_tokens'[u].present /\ authLast'.error = ""
       /\ \A c \in AuthRunning, revoked \in BOOLEAN :
            TokenRevoked(c, revoked) =>
              ~google_tokens'[c.user].present /\ authLast'.error = ""]_vars

\* a disconnect of a connected user whose revocation was rejected has
\* returned normally and the user is no longer connected
C30_Witness ==
  /\ authLast.op = "disconnect"
  /\ authLast.pc = "done"
  /\ authLast.record.present
  /\ ~authLast.revoked
  /\ authLast.error = ""
  /\ ~isConnected(authLast.user)

\* C31: a refresh performed by getClient changes only the access token and
\* the expiry of the subject's record: the record's refresh token and scope
\* are the same after the upsert as before it, and no other subject's
\* record is touched.
C31_RefreshFrame ==
  [][authCalls' # authCalls =>
       \A c \in AuthRunning, resp \in RefreshResponses :
         TokenRefreshed(c, resp) /\ resp.kind # "reject" =>
           /\ google_tokens'[c.user].present = google_tokens[c.user].present
           /\ google_tokens'[c.user].refresh_token = google_tokens[c.user].refresh_token
           /\ google_tokens'[c.user].scope = google_tokens[c.user].scope
           /\ \A u \in AuthUsers \ {c.user} : google_tokens'[u] = google_tokens[u]]_vars

\* C32 as stated: every calendar or drive micro-agent request makes at most
\* 5 LLM calls; it returns the concatenated text as soon as a reply has no
\* tool-use blocks, and the fixed failure string if the fifth reply still
\* requests tools.
C32_BoundedToolLoop ==
  /\ agentRun.llmCalls <= 5
  /\ agentRun.pc \in {"llm", "tools"} /\ agentRun.llmCalls > 1 => agentRun.reply.toolUses > 0
  /\ agentRun.outcome = "returned" =>
       IF agentRun.reply.toolUses = 0
         THEN agentRun.result = join(agentRun.reply.textParts)
         ELSE agentRun.llmCalls = 5 /\ agentRun.result = MaxStepsMessage

\* C32 amended: as above, but a final reply whose concatenated text is empty
\* is answered with "Done."; a request whose LLM call is rejected ends by
\* throwing, also within 5 calls.
C32_BoundedToolLoopAmended ==
  /\ agentRun.llmCalls <= 5
  /\ agentRun.pc \in {"llm", "tools"} /\ agentRun.llmCalls > 1 => agentRun.reply.toolUses > 0
  /\ agentRun.outcome = "returned" =>
       IF agentRun.reply.toolUses = 0
         THEN agentRun.result = IF join(agentRun.reply.textParts) = ""
                                  THEN "Done." ELSE join(agentRun.reply.textParts)
         ELSE agentRun.llmCalls = 5 /\ agentRun.result = MaxStepsMessage

\* the fifth reply of a drive request still asked for tools and the request
\* has returned the failure string
C32_Witness ==
  /\ agentRun.agent = "drive"
  /\ agentRun.pc = "done"
  /\ agentRun.llmCalls = 5
  /\ agentRun.reply.toolUses = 2
  /\ agentRun.result = MaxStepsMessage

\* C33: whenever the text of the scrum-master's reply contains the literal
\* NO_STALE_TASKS, execute of the stale-task job returns
\* {success: true, posted: false} and posts nothing to Slack.
C33_SentinelSuppressesPost ==
  LET r == staleRun.response
      replyText == extractTextFromTask(r)
  IN /\ staleRun.pc \in {"post", "done"}
     /\ ~r.error /\ r.result
     /\ \E i \in 1..Len(replyText) : replyText[i] = "NO_STALE_TASKS"
     => /\ staleRun.pc = "done"
        /\ staleRun.outcome = "returned"
        /\ staleRun.result.success /\ ~staleRun.result.posted
        /\ staleRun.posts = 0

\* the reply holds the sentinel next to a phrase of a confused agent, and
\* execute has returned success without a post
C33_Witness ==
  /\ staleRun.pc = "done"
  /\ staleRun.response.parts =
       <<TextPart(<<"I", "need", "a", "board", "NO_STALE_TASKS">>)>>
  /\ ~staleRun.response.error /\ staleRun.response.result
  /\ staleRun.response.message
  /\ staleRun.result = StaleSuccess(FALSE)
  /\ staleRun.posts = 0

\* C34: a job registered with enabled = false is never scheduled: whatever
\* is registered, started, ticked and stopped, it has no cron task and its
\* execute is never called.
C34_DisabledNeverRuns ==
  \A j \in JobIds :
    jobs[j].registered /\ ~jobs[j].enabled =>
      /\ ~jobs[j].task
      /\ inFlight[j] = 0
      /\ ~jobs[j].running
      /\ ~jobs[j].lastRun
      /\ execs[j] = NoExec
      /\ skips[j] = 0

\* after startAll an enabled job has run and ticks again while a disabled
\* job stays without a task
C34_Witness ==
  \E j, k \in JobIds :
    /\ schedPhase = "started"
    /\ jobs[j].registered /\ ~jobs[j].enabled /\ ~jobs[j].task
    /\ jobs[k].enabled /\ jobs[k].lastRun /\ inFlight[k] = 1

\* C35: for any interleaving of concurrently running syncs (a timer attempt
\* overlapping a manual meeting-sync run, or two timer attempts), at most
\* one preview is ever posted for a given event id.
C35_OnePreviewPerEvent ==
  \A e \in MeetingIds : previews[e].posts < 2

\* C36: after a meeting_edit_submit the meeting record becomes approved
\* only if the product-owner A2A call returned a result without error; when
\* the call fails, including with the synthetic -32000 error response, the
\* record stays pending.
C36_ApprovedOnlyOnSuccess ==
  [][modal' # modal =>
       \A e \in MeetingIds :
         MeetingEditReplied(e, "error") =>
           \A r \in processed_meetings :
             r.event_id = e /\ r.status = "pending" => r \in processed_meetings']_vars

\* C37: the retry timer of event E is cancelled before it fires only if E
\* itself is processed or stop() was called: a preview posted for a different
\* meeting during E's first attempt does not cancel E's retry.
C37_RetryCancelledOnlyIfProcessed ==
  [][scheduled' # scheduled =>
       \A e \in OrchEvents :
         scheduled[e].retryTimer = "pending" /\ scheduled'[e].retryTimer = "null" =>
           \/ stopped'
           \/ \E r \in processed_meetings' : r.event_id = e]_vars

\* C38: all A2A requests that carry a given context_id are sent to the same
\* agent: a session's contextId is never sent to an agent other than the one
\* it was first used with, over any sequence of mentions and threaded replies.
C38_ContextBoundToAgent ==
  \A c, d \in a2aCalls :
    c.ctx # NoCtx /\ c.ctx = d.ctx => c.agentKey = d.agentKey

\* C39: for every input text and every LLM reply, classify(text).agentKey is
\* one of the four agent keys (product-owner, developer, reviewer,
\* scrum-master), so a stored agent key always resolves to an agent URL.
C39_AgentKeyKnown ==
  cls.op = "classify" => cls.result.agentKey \in AgentKeys

\* C40: whenever an execute settles, by returning success, returning failure
\* or throwing, the job's running flag is false again before any later tick
\* is evaluated, so no tick is skipped because of a run that has finished.
C40_RunningClearedOnSettle ==
  [][\A j \in JobIds :
       /\ inFlight'[j] < inFlight[j] => ~jobs'[j].running
       /\ inFlight[j] = 0 => skips'[j] = skips[j]]_vars

\* an execute threw, and the next tick of that job was not skipped
C40_Witness ==
  \E j \in JobIds :
    /\ execs[j].last = "throw"
    /\ jobs[j].consecutiveFailures = 1
    /\ skips[j] = 0
    /\ inFlight[j] = 1
    /\ jobs[j].running

====
